---- MODULE Spec2Model ----
(***************************************************************************)
(* Model of the approved-secrets secret engine of vault-plugins: the       *)
(* key-value accessor, the role registry and the request / approve / issue *)
(* workflow with its lease revocation hooks.                               *)
(*                                                                         *)
(* Strings that become storage keys are sequences of one-character         *)
(* strings, so that strings.ToLower and path.Join are computed.            *)
(* An optional value (a nil pointer, a field absent from the request data) *)
(* is the empty sequence <<>>; a present value v is <<v>>.                 *)
(***************************************************************************)
EXTENDS Integers, Sequences, FiniteSets, Bags, TLC

(***************************************************************************)
(* Strings                                                                 *)
(***************************************************************************)
UpperToLower ==
    ("A" :> "a") @@ ("B" :> "b") @@ ("C" :> "c") @@ ("D" :> "d") @@
    ("E" :> "e") @@ ("F" :> "f") @@ ("G" :> "g") @@ ("H" :> "h") @@
    ("I" :> "i") @@ ("J" :> "j") @@ ("K" :> "k") @@ ("L" :> "l") @@
    ("M" :> "m") @@ ("N" :> "n") @@ ("O" :> "o") @@ ("P" :> "p") @@
    ("Q" :> "q") @@ ("R" :> "r") @@ ("S" :> "s") @@ ("T" :> "t") @@
    ("U" :> "u") @@ ("V" :> "v") @@ ("W" :> "w") @@ ("X" :> "x") @@
    ("Y" :> "y") @@ ("Z" :> "z")

\* strings.ToLower, character by character
ToLower(s) ==
    [i \in 1..Len(s) |->
        IF s[i] \in DOMAIN UpperToLower THEN UpperToLower[s[i]] ELSE s[i]]

\* path.Join of two elements: empty elements are ignored, the rest are
\* joined by a slash (the names and nonces of the model hold no slash or dot
\* segment for path.Clean to rewrite)
pathJoin(a, b) ==
    IF b = <<>> THEN a
    ELSE IF a = <<>> THEN b
    ELSE a \o <<"/">> \o b

IsPrefix(p, s) == Len(p) <= Len(s) /\ SubSeq(s, 1, Len(p)) = p

Range(s) == {s[i] : i \in DOMAIN s}

\* strutil.StrListContains
StrListContains(list, x) == \E i \in DOMAIN list : list[i] = x

(***************************************************************************)
(* logical.Storage: a map from key to entry.  Put, Delete.                 *)
(***************************************************************************)
StoragePut(st, key, data) ==
    [k \in DOMAIN st \cup {key} |-> IF k = key THEN data ELSE st[k]]

StorageDelete(st, key) == [k \in DOMAIN st \ {key} |-> st[k]]

\* s.List(prefix): the names directly under prefix; a deeper key shows as
\* its first segment followed by a slash
FirstSegment(s) ==
    LET slashes == {i \in DOMAIN s : s[i] = "/"}
    IN  IF slashes = {} THEN s
        ELSE SubSeq(s, 1, CHOOSE i \in slashes : \A j \in slashes : i <= j)

StorageList(st, prefix) ==
    {FirstSegment(SubSeq(k, Len(prefix) + 1, Len(k))) :
        k \in {x \in DOMAIN st : IsPrefix(prefix, x) /\ Len(x) > Len(prefix)}}

(***************************************************************************)
(* atomicStorageAccessor: one RWMutex per namespace, held for the length   *)
(* of one get / put / list / delete call and released when it returns.     *)
(* Each call is therefore one atomic step on the storage.                  *)
(***************************************************************************)
RECURSIVE accessorKey(_, _)
accessorKey(path, subkeys) ==
    IF subkeys = <<>> THEN path
    ELSE accessorKey(pathJoin(path, ToLower(Head(subkeys))), Tail(subkeys))

\* a mutant of accessorGet: the sub-keys are not lower-cased on the read path
accessorGetNoLower(st, path, subkeys) ==
    LET RECURSIVE rawKey(_, _)
        rawKey(p, ks) == IF ks = <<>> THEN p
                         ELSE rawKey(pathJoin(p, Head(ks)), Tail(ks))
        key == rawKey(path, subkeys)
    IN  IF key \in DOMAIN st THEN <<st[key]>> ELSE <<>>

accessorGet(st, path, subkeys) ==
    LET key == accessorKey(path, subkeys)
    IN  IF key \in DOMAIN st THEN <<st[key]>> ELSE <<>>

accessorPut(st, path, data, subkeys) ==
    StoragePut(st, accessorKey(path, subkeys), data)

accessorList(st, path, subkeys) ==
    StorageList(st, accessorKey(path, subkeys) \o <<"/">>)

accessorDelete(st, path, subkeys) ==
    StorageDelete(st, accessorKey(path, subkeys))

\* newBackend: the four namespaces
configPath  == <<"c", "o", "n", "f", "i", "g">>
requestPath == <<"r", "e", "q", "u", "e", "s", "t">>
\* a mutant of rolePath: the role accessor shares the namespace of the
\* request accessor
rolePathShared == requestPath
rolePath    == <<"r", "o", "l", "e">>
issuePath   == <<"i", "s", "s", "u", "e">>

(***************************************************************************)
(* framework.FieldData: every schema field is absent (<<>>) or present     *)
(* (<<v>>).  GetOk reports presence, Get falls back to the schema default. *)
(***************************************************************************)
GetOk(d, k) == d[k] # <<>>

Val(d, k) == d[k][1]

\* schema defaults of pathsRole (durations in seconds)
DefaultSecretPathMethod == "GET"
DefaultSecretTTL == 28800
DefaultSecretMaxTTL == 43200
DefaultMinApprovers == 1

\* System().MaxLeaseTTL() of the mount, in seconds
MaxLeaseTTL == 86400

\* time.Second, the number of time.Duration units in a second.  Durations
\* are counted in milliseconds here (Go counts nanoseconds), which keeps
\* 48 hours inside the integers of the model checker; the handlers only
\* multiply and divide by it.
Second == 1000

(***************************************************************************)
(* roleStorageEntry and its JSON form (the json tags of the struct)        *)
(***************************************************************************)
zeroRole ==
    [SecretPath |-> "", SecretPathMethod |-> "", SecretData |-> <<>>,
     SecretType |-> "", SecretEnvironment |-> "", SecretAWSStateRole |-> "",
     SecretRequiredFields |-> <<>>, SecretTTL |-> 0, SecretMaxTTL |-> 0,
     ExclusiveLease |-> FALSE, MinApprovers |-> 0,
     BoundRequesterIDs |-> <<>>, BoundRequesterRoles |-> <<>>,
     BoundApproverIDs |-> <<>>, BoundApproverRoles |-> <<>>,
     NotifySlackChannels |-> <<>>]

roleToJSON(r) ==
    [secret_path |-> r.SecretPath,
     secret_path_method |-> r.SecretPathMethod,
     secret_data |-> r.SecretData,
     secret_type |-> r.SecretType,
     secret_environment |-> r.SecretEnvironment,
     secret_aws_state_role |-> r.SecretAWSStateRole,
     secret_required_fields |-> r.SecretRequiredFields,
     secret_ttl |-> r.SecretTTL,
     secret_max_ttl |-> r.SecretMaxTTL,
     exclusive_lease |-> r.ExclusiveLease,
     min_approvers |-> r.MinApprovers,
     allowed_requester_ids |-> r.BoundRequesterIDs,
     allowed_requester_roles |-> r.BoundRequesterRoles,
     allowed_approver_ids |-> r.BoundApproverIDs,
     allowed_approver_roles |-> r.BoundApproverRoles,
     notify_slack_channels |-> r.NotifySlackChannels]

roleFromJSON(j) ==
    [SecretPath |-> j.secret_path,
     SecretPathMethod |-> j.secret_path_method,
     SecretData |-> j.secret_data,
     SecretType |-> j.secret_type,
     SecretEnvironment |-> j.secret_environment,
     SecretAWSStateRole |-> j.secret_aws_state_role,
     SecretRequiredFields |-> j.secret_required_fields,
     SecretTTL |-> j.secret_ttl,
     SecretMaxTTL |-> j.secret_max_ttl,
     ExclusiveLease |-> j.exclusive_lease,
     MinApprovers |-> j.min_approvers,
     BoundRequesterIDs |-> j.allowed_requester_ids,
     BoundRequesterRoles |-> j.allowed_requester_roles,
     BoundApproverIDs |-> j.allowed_approver_ids,
     BoundApproverRoles |-> j.allowed_approver_roles,
     NotifySlackChannels |-> j.notify_slack_channels]

\* backend.role: nil (<<>>) when the entry is absent
backendRole(st, name) ==
    LET entry == accessorGet(st, rolePath, <<name>>)
    IN  IF entry = <<>> THEN <<>> ELSE <<roleFromJSON(entry[1])>>

\* pathRoleExistenceCheck: the framework turns a write into a create or an
\* update by it
pathRoleExistenceCheck(st, name) == backendRole(st, name) # <<>>

(***************************************************************************)
(* pathRoleCreateUpdate, from the role read to the decision: the fields    *)
(* are applied in the order of the code and every early return is kept.    *)
(* The result holds the error response ("" when none), the truncation      *)
(* warning and the role that roleAccessor.put then stores.                 *)
(***************************************************************************)
errBadSecretPathMethod == "bad secret_path_method (expected POST or GET)"
errBadMinApprovers == "bad min_approvers (must be >= 1)"
errBadSecretDataMethod == "bad method for secret_data (must be POST)"
errBadSecretTTL == "secret_ttl should not be greater than secret_max_ttl"

\* pathRoleCreateUpdate without its checks and without the clamp: whatever
\* is sent is stored
roleCreateUpdateUnchecked(found, d, operation) ==
    [err |-> "", warning |-> FALSE,
     role |-> [zeroRole EXCEPT
         !.SecretPath = IF GetOk(d, "secret_path")
                        THEN Val(d, "secret_path") ELSE "",
         !.SecretPathMethod = IF GetOk(d, "secret_path_method")
                              THEN Val(d, "secret_path_method")
                              ELSE DefaultSecretPathMethod,
         !.SecretData = IF GetOk(d, "secret_data")
                        THEN <<Val(d, "secret_data")>> ELSE <<>>,
         !.SecretTTL = IF GetOk(d, "secret_ttl")
                       THEN Second * Val(d, "secret_ttl")
                       ELSE Second * DefaultSecretTTL,
         !.SecretMaxTTL = IF GetOk(d, "secret_max_ttl")
                          THEN Second * Val(d, "secret_max_ttl")
                          ELSE Second * DefaultSecretMaxTTL,
         !.MinApprovers = IF GetOk(d, "min_approvers")
                          THEN Val(d, "min_approvers")
                          ELSE DefaultMinApprovers,
         !.BoundApproverIDs = IF GetOk(d, "bound_approver_ids")
                              THEN Val(d, "bound_approver_ids") ELSE <<>>]]

roleCreateUpdate(found, d, operation) ==
    LET role0 == IF found = <<>> THEN zeroRole ELSE found[1]
        role1 == [role0 EXCEPT
            !.SecretPath = IF GetOk(d, "secret_path")
                           THEN Val(d, "secret_path") ELSE "",
            !.SecretPathMethod =
                IF GetOk(d, "secret_path_method")
                THEN Val(d, "secret_path_method")
                ELSE IF role0.SecretPathMethod = ""
                     THEN DefaultSecretPathMethod
                     ELSE role0.SecretPathMethod]
        badMethod == role1.SecretPathMethod # "POST"
                     /\ role1.SecretPathMethod # "GET"
        role2 == [role1 EXCEPT
            !.SecretData = IF GetOk(d, "secret_data")
                           THEN <<Val(d, "secret_data")>> ELSE <<>>]
        badData == role2.SecretPathMethod = "GET" /\ role2.SecretData # <<>>
        role3 == [role2 EXCEPT
            !.SecretType = IF GetOk(d, "secret_type")
                           THEN Val(d, "secret_type") ELSE @,
            !.SecretEnvironment = IF GetOk(d, "secret_environment")
                                  THEN Val(d, "secret_environment") ELSE @,
            !.SecretAWSStateRole = IF GetOk(d, "secret_aws_state_role")
                                   THEN Val(d, "secret_aws_state_role") ELSE @,
            !.SecretRequiredFields =
                IF GetOk(d, "secret_required_fields")
                THEN Val(d, "secret_required_fields") ELSE @,
            !.SecretTTL =
                IF GetOk(d, "secret_ttl") THEN Second * Val(d, "secret_ttl")
                ELSE IF operation = "create" THEN Second * DefaultSecretTTL
                ELSE @,
            !.SecretMaxTTL =
                IF GetOk(d, "secret_max_ttl")
                THEN Second * Val(d, "secret_max_ttl")
                ELSE IF operation = "create" THEN Second * DefaultSecretMaxTTL
                ELSE @]
        badTTL == role3.SecretMaxTTL > 0 /\ role3.SecretTTL > role3.SecretMaxTTL
        truncated == role3.SecretMaxTTL > Second * MaxLeaseTTL
        role4 == [role3 EXCEPT
            !.SecretMaxTTL = IF truncated THEN Second * MaxLeaseTTL ELSE @,
            !.ExclusiveLease = IF GetOk(d, "exclusive_lease")
                               THEN Val(d, "exclusive_lease") ELSE FALSE,
            !.MinApprovers =
                IF GetOk(d, "min_approvers") THEN Val(d, "min_approvers")
                ELSE IF role3.MinApprovers = 0 THEN DefaultMinApprovers
                ELSE @]
        badMin == role4.MinApprovers < 1
        role5 == [role4 EXCEPT
            !.BoundRequesterIDs = IF GetOk(d, "bound_requester_ids")
                                  THEN Val(d, "bound_requester_ids") ELSE @,
            !.BoundRequesterRoles = IF GetOk(d, "bound_requester_roles")
                                    THEN Val(d, "bound_requester_roles") ELSE @,
            !.BoundApproverIDs = IF GetOk(d, "bound_approver_ids")
                                 THEN Val(d, "bound_approver_ids") ELSE @,
            !.BoundApproverRoles = IF GetOk(d, "bound_approver_roles")
                                   THEN Val(d, "bound_approver_roles") ELSE @,
            !.NotifySlackChannels = IF GetOk(d, "notify_slack_channels")
                                    THEN Val(d, "notify_slack_channels") ELSE @]
        err == IF badMethod THEN errBadSecretPathMethod
               ELSE IF badData THEN errBadSecretDataMethod
               ELSE IF badTTL THEN errBadSecretTTL
               ELSE IF badMin THEN errBadMinApprovers
               ELSE ""
    IN  [err |-> err, warning |-> (err = "" /\ truncated), role |-> role5]

errNoRoleFound == "no role found"

\* a mutant of pathRoleRead: the durations are returned as stored
pathRoleReadDurations(st, name) ==
    LET found == backendRole(st, name)
    IN  IF found = <<>>
        THEN [err |-> errNoRoleFound, data |-> <<>>]
        ELSE [err |-> "",
              data |-> <<[name |-> name,
                          secret_ttl |-> found[1].SecretTTL,
                          secret_max_ttl |-> found[1].SecretMaxTTL]>>]

\* a mutant of pathRoleRead: an absent role is answered as an empty role
pathRoleReadEmptyRole(st, name) ==
    LET found == backendRole(st, name)
    IN  [err |-> "",
         data |-> <<[name |-> name,
                     secret_path |-> IF found = <<>> THEN ""
                                     ELSE found[1].SecretPath]>>]

\* pathRoleRead: the not-found error, or the response data (durations in
\* seconds; notify_slack_channels is not part of the response)
pathRoleRead(st, name) ==
    LET found == backendRole(st, name)
    IN  IF found = <<>>
        THEN [err |-> errNoRoleFound, data |-> <<>>]
        ELSE LET role == found[1]
             IN  [err |-> "",
                  data |-> <<[name |-> name,
                      secret_path |-> role.SecretPath,
                      secret_path_method |-> role.SecretPathMethod,
                      secret_data |-> role.SecretData,
                      secret_type |-> role.SecretType,
                      secret_environment |-> role.SecretEnvironment,
                      secret_aws_state_role |-> role.SecretAWSStateRole,
                      secret_required_fields |-> role.SecretRequiredFields,
                      secret_ttl |-> role.SecretTTL \div Second,
                      secret_max_ttl |-> role.SecretMaxTTL \div Second,
                      exclusive_lease |-> role.ExclusiveLease,
                      bound_requester_ids |-> role.BoundRequesterIDs,
                      bound_requester_roles |-> role.BoundRequesterRoles,
                      bound_approver_ids |-> role.BoundApproverIDs,
                      bound_approver_roles |-> role.BoundApproverRoles,
                      min_approvers |-> role.MinApprovers]>>]

\* pathRoleList
pathRoleList(st) == accessorList(st, rolePath, <<<<>>>>)

(***************************************************************************)
(* configStorageEntry and pathConfigCreateUpdate (durations in seconds)    *)
(***************************************************************************)
DefaultApprovalTTL == 3600
DefaultVaultAddr == "http://127.0.0.1:8200"

zeroConfig ==
    [ApprovalTTL |-> 0, VaultAddr |-> "", VaultToken |-> "",
     VaultPolicies |-> <<>>, IdentityTemplate |-> "", SlackWebhookURL |-> ""]

\* backend.config: nil (<<>>) when the entry is absent
backendConfig(st) == accessorGet(st, configPath, <<>>)

\* pathConfigCreateUpdate: the merged config and, when the orphan token was
\* created (orphan is its client token, <<>> when the Vault call failed),
\* the storage with the config written straight under "config"
configCreateUpdate(st, d, orphan) ==
    LET found == backendConfig(st)
        c0 == IF found = <<>> THEN zeroConfig ELSE found[1]
        c1 == [c0 EXCEPT
            !.ApprovalTTL = IF GetOk(d, "approval_ttl")
                            THEN Val(d, "approval_ttl")
                            ELSE IF c0.ApprovalTTL = 0 THEN DefaultApprovalTTL
                            ELSE @,
            !.VaultPolicies = IF GetOk(d, "vault_policies")
                              THEN Val(d, "vault_policies") ELSE @,
            !.VaultAddr = IF GetOk(d, "vault_addr") THEN Val(d, "vault_addr")
                          ELSE IF c0.VaultAddr = "" THEN DefaultVaultAddr
                          ELSE @,
            !.IdentityTemplate = IF GetOk(d, "identity_template")
                                 THEN Val(d, "identity_template") ELSE @,
            !.SlackWebhookURL = IF GetOk(d, "slack_webhook_url")
                                THEN Val(d, "slack_webhook_url") ELSE @]
    IN  IF orphan = <<>>
        THEN [err |-> "failed to create orphaned Vault token", st |-> st]
        ELSE [err |-> "",
              st |-> StoragePut(st, configPath,
                                [c1 EXCEPT !.VaultToken = orphan[1]])]

(***************************************************************************)
(* newVaultClient and the periodic function newVaultTokenRenewer.  The     *)
(* outcomes of the Vault api calls are inputs: api.DefaultConfig gives a   *)
(* usable config or not, api.NewClient gives a client or (nil, err), the   *)
(* renew-self write succeeds or not.  newVaultClient drops the error of    *)
(* api.NewClient and goes on to clt.SetToken, which dereferences the nil   *)
(* client: the goroutine panics.                                           *)
(***************************************************************************)
newVaultClient(defaultConfigOk, newClientOk) ==
    IF ~defaultConfigOk THEN "error"
    ELSE IF ~newClientOk THEN "panic"
    ELSE "client"

\* the function returned by newVaultTokenRenewer: what one run returns
vaultTokenRenewer(st, loadOk, defaultConfigOk, newClientOk, writeOk) ==
    IF ~loadOk THEN "nil"
    ELSE IF backendConfig(st) = <<>> THEN "nil"
    ELSE LET clt == newVaultClient(defaultConfigOk, newClientOk)
         IN  IF clt = "error" THEN "nil"
             ELSE IF clt = "panic" THEN "panic"
             ELSE IF ~writeOk THEN "nil"
             ELSE "nil"

(***************************************************************************)
(* Callers.  The identity store of the host gives every caller an entity   *)
(* with its aliases and its groups; a group may carry a primaryRole in its *)
(* metadata.                                                               *)
(***************************************************************************)
Callers == {"alice", "bob", "dave"}

callerEntity(c) ==
    [EntityID |-> c,
     Aliases |-> <<c>>,
     Groups |-> IF c = "dave" THEN <<<<>>, <<"ops">>>>
                ELSE <<<<"sre">>>>]

\* a mutant of getFistEntityAlias: the first alias of an entity that has
\* any
getFistEntityAliasOfMany(entity) ==
    IF entity = <<>> \/ Len(entity[1].Aliases) < 1 THEN <<>>
    ELSE <<entity[1].Aliases[1]>>

\* getFistEntityAlias: exactly one alias, or an error (<<>>)
getFistEntityAlias(entity) ==
    IF entity = <<>> \/ Len(entity[1].Aliases) # 1 THEN <<>>
    ELSE <<entity[1].Aliases[1]>>

\* applyIdentityTemplate: no entity ID is an error; the host's
\* PopulateIdentityTemplate resolves the template to the alias it names
applyIdentityTemplate(entity, tpl) ==
    IF entity = <<>> \/ entity[1].EntityID = "" THEN <<>>
    ELSE IF entity[1].Aliases = <<>> THEN <<>>
    ELSE <<entity[1].Aliases[1]>>

getCallerIdentity(entity, identityTemplate) ==
    IF identityTemplate = "" THEN getFistEntityAlias(entity)
    ELSE applyIdentityTemplate(entity, identityTemplate)

\* a mutant of verifyCallerRoles: found starts out true
verifyCallerRolesFoundTrue(cfg, entity, roles, apiOk) ==
    IF cfg = <<>> THEN "panic"
    ELSE IF ~apiOk THEN "error"
    ELSE "ok"

\* verifyCallerRoles: some group of the caller's entity has a primaryRole
\* among roles.  A nil config is dereferenced (a panic); a failing Vault
\* call is an error.
verifyCallerRoles(cfg, entity, roles, apiOk) ==
    IF cfg = <<>> THEN "panic"
    ELSE IF ~apiOk THEN "error"
    ELSE IF \E i \in DOMAIN entity.Groups :
                /\ entity.Groups[i] # <<>>
                /\ StrListContains(roles, entity.Groups[i][1])
         THEN "ok"
         ELSE "error"

\* the caller's role recorded with a request: the first primaryRole found
callerRole(entity) ==
    LET with == {i \in DOMAIN entity.Groups : entity.Groups[i] # <<>>}
    IN  IF with = {} THEN ""
        ELSE entity.Groups[CHOOSE i \in with : \A j \in with : i <= j][1]

(***************************************************************************)
(* Requests and issues.  backend.request and backend.issue read them       *)
(* through their accessors under the two sub-keys (role name, nonce).      *)
(***************************************************************************)
backendRequest(st, name, nonce) == accessorGet(st, requestPath, <<name, nonce>>)

backendIssue(st, name, nonce) == accessorGet(st, issuePath, <<name, nonce>>)

\* a mutant of addApprover: the identity is appended without the membership
\* test
addApproverAlways(ids, id) == Append(ids, id)

\* approver_ids holds an identity once
addApprover(ids, id) == IF StrListContains(ids, id) THEN ids ELSE Append(ids, id)

\* a mutant of isExpired: the expiry is never looked at
isExpiredNever(req, tNow) == FALSE

isExpired(req, tNow) == tNow > req.expires_at

\* a mutant of approverAllowed: the bound lists are read from the role as
\* stored now, not from the snapshot held by the request (no bound when the
\* role is gone)
approverAllowedByRole(st, name, req, cfg, entity, id, apiOk) ==
    LET role == backendRole(st, name)
        ids == IF role = <<>> THEN <<>> ELSE role[1].BoundApproverIDs
        roles == IF role = <<>> THEN <<>> ELSE role[1].BoundApproverRoles
    IN  /\ (ids = <<>> \/ StrListContains(ids, id))
        /\ (roles = <<>> \/ verifyCallerRoles(cfg, entity, roles, apiOk) = "ok")

\* the approver passes every non-empty bound list snapshotted in the request
approverAllowed(st, name, req, cfg, entity, id, apiOk) ==
    /\ (req.bound_approver_ids = <<>>
        \/ StrListContains(req.bound_approver_ids, id))
    /\ (req.bound_approver_roles = <<>>
        \/ verifyCallerRoles(cfg, entity, req.bound_approver_roles, apiOk) = "ok")

\* a mutant of hasApprovals: one approval is always enough
hasApprovalsOne(req) == Len(req.approver_ids) >= 1

\* approval sufficiency, computed on demand
hasApprovals(req) == Len(req.approver_ids) >= req.min_approvers

\* approve, from the load of the request to the decision: the outcome
\* ("" to go on) and the request to persist
approveDecide(st, name, nonce, caller, tNow, apiOk) ==
    LET found == backendRequest(st, name, nonce)
        cfg == backendConfig(st)
        entity == callerEntity(caller)
        id == IF cfg = <<>> THEN <<>>
              ELSE getCallerIdentity(<<entity>>, cfg[1].IdentityTemplate)
    IN  IF found = <<>> THEN [outcome |-> "NotFound", req |-> <<>>]
        ELSE IF isExpired(found[1], tNow)
        THEN [outcome |-> "Expired", req |-> <<>>]
        ELSE IF cfg = <<>> THEN [outcome |-> "UpstreamFailure", req |-> <<>>]
        ELSE IF id = <<>> THEN [outcome |-> "PermissionDenied", req |-> <<>>]
        ELSE IF ~approverAllowed(st, name, found[1], cfg, entity, id[1], apiOk)
        THEN [outcome |-> "PermissionDenied", req |-> <<>>]
        ELSE [outcome |-> "",
              req |-> <<[found[1] EXCEPT
                  !.approver_ids = addApprover(@, id[1]),
                  !.expires_at = tNow + cfg[1].ApprovalTTL]>>]

\* issue, from the load of the request to the decision to call downstream
issueDecide(st, name, nonce, caller, tNow) ==
    LET found == backendRequest(st, name, nonce)
        cfg == backendConfig(st)
        id == IF cfg = <<>> THEN <<>>
              ELSE getCallerIdentity(<<callerEntity(caller)>>,
                                     cfg[1].IdentityTemplate)
    IN  IF found = <<>> THEN [outcome |-> "NotFound", req |-> <<>>]
        ELSE IF isExpired(found[1], tNow)
        THEN [outcome |-> "Expired", req |-> <<>>]
        ELSE IF ~hasApprovals(found[1])
        THEN [outcome |-> "PermissionDenied", req |-> <<>>]
        ELSE IF cfg = <<>> THEN [outcome |-> "UpstreamFailure", req |-> <<>>]
        ELSE IF id = <<>> \/ id # <<found[1].requester_id>>
        THEN [outcome |-> "PermissionDenied", req |-> <<>>]
        ELSE IF backendRole(st, name) = <<>>
        THEN [outcome |-> "NotFound", req |-> <<>>]
        ELSE [outcome |-> "", req |-> found]

\* open, from the load of the role to the requester checks
openDecide(st, name, caller, apiOk) ==
    LET role == backendRole(st, name)
        cfg == backendConfig(st)
        entity == callerEntity(caller)
        id == IF cfg = <<>> THEN <<>>
              ELSE getCallerIdentity(<<entity>>, cfg[1].IdentityTemplate)
    IN  IF role = <<>> THEN [outcome |-> "NotFound", role |-> <<>>]
        ELSE IF cfg = <<>> THEN [outcome |-> "UpstreamFailure", role |-> <<>>]
        ELSE IF id = <<>> THEN [outcome |-> "PermissionDenied", role |-> <<>>]
        ELSE IF /\ role[1].BoundRequesterIDs # <<>>
                /\ ~StrListContains(role[1].BoundRequesterIDs, id[1])
        THEN [outcome |-> "PermissionDenied", role |-> <<>>]
        ELSE IF /\ role[1].BoundRequesterRoles # <<>>
                /\ verifyCallerRoles(cfg, entity, role[1].BoundRequesterRoles,
                                     apiOk) # "ok"
        THEN [outcome |-> "PermissionDenied", role |-> <<>>]
        ELSE [outcome |-> "", role |-> role]

\* the exclusivity check of open: an Issue record under the role
exclusiveConflict(st, name, role) ==
    role.ExclusiveLease /\ accessorList(st, issuePath, <<name>>) # {}

\* the request persisted by open: the role's approver constraints are
\* snapshotted
newRequest(role, nonce, caller, cfg, tNow) ==
    [nonce |-> nonce,
     requester_id |-> getCallerIdentity(<<callerEntity(caller)>>,
                                        cfg.IdentityTemplate)[1],
     requester_role |-> callerRole(callerEntity(caller)),
     bound_approver_ids |-> role.BoundApproverIDs,
     bound_approver_roles |-> role.BoundApproverRoles,
     min_approvers |-> role.MinApprovers,
     approver_ids |-> <<>>,
     expires_at |-> tNow + cfg.ApprovalTTL]

(***************************************************************************)
(* Lease revocation hooks                                                  *)
(***************************************************************************)
\* a mutant of secretApprovedSecretIssueRevoke: the delete goes to the
\* request accessor
secretApprovedSecretIssueRevokeWrongAccessor(st, name, nonce) ==
    IF name = <<>> THEN [resp |-> "missing role", st |-> st]
    ELSE IF nonce = <<>> THEN [resp |-> "missing nonce", st |-> st]
    ELSE [resp |-> "", st |-> accessorDelete(st, requestPath, <<name, nonce>>)]

\* a mutant of secretApprovedSecretIssueRevoke: the revoke of a lease whose
\* Issue record is gone is an error
secretApprovedSecretIssueRevokeStrict(st, name, nonce) ==
    IF name = <<>> THEN [resp |-> "missing role", st |-> st]
    ELSE IF nonce = <<>> THEN [resp |-> "missing nonce", st |-> st]
    ELSE IF accessorGet(st, issuePath, <<name, nonce>>) = <<>>
    THEN [resp |-> "failed to delete issue", st |-> st]
    ELSE [resp |-> "", st |-> accessorDelete(st, issuePath, <<name, nonce>>)]

secretApprovedSecretIssueRevoke(st, name, nonce) ==
    IF name = <<>> THEN [resp |-> "missing role", st |-> st]
    ELSE IF nonce = <<>> THEN [resp |-> "missing nonce", st |-> st]
    ELSE [resp |-> "", st |-> accessorDelete(st, issuePath, <<name, nonce>>)]

secretApprovedSecretRequestRevoke(st, name, nonce) ==
    IF name = <<>> THEN [resp |-> "missing role", st |-> st]
    ELSE IF nonce = <<>> THEN [resp |-> "missing nonce", st |-> st]
    ELSE [resp |-> "",
          st |-> accessorDelete(st, requestPath, <<pathJoin(name, nonce)>>)]

\* a mutant of sendSlackNotifications: only the post to the first channel
\* is looked at
sendSlackNotificationsFirstOnly(channels, sendOk) ==
    IF channels # <<>> /\ ~sendOk[1] THEN <<channels[1]>> ELSE <<>>

\* the notification loop of the issue handler: the channels of the role are
\* posted to in order and the first post that fails ends the call with an
\* error naming the channel (<<>> when every post went through); sendOk
\* tells for each channel whether a post to it succeeds
sendSlackNotifications(channels, sendOk) ==
    LET failed == {i \in DOMAIN channels : ~sendOk[i]}
    IN  IF failed = {} THEN <<>>
        ELSE <<channels[CHOOSE i \in failed : \A j \in failed : i <= j]>>

\* a mutant of roleDelete: the delete cascades to the requests of the role
roleDeleteCascade(st, name) ==
    LET gone == {k \in DOMAIN st :
                    IsPrefix(accessorKey(requestPath, <<name>>) \o <<"/">>, k)}
        st1 == accessorDelete(st, rolePath, <<name>>)
    IN  [k \in DOMAIN st1 \ gone |-> st1[k]]

\* pathRoleDelete
roleDelete(st, name) == accessorDelete(st, rolePath, <<name>>)

(***************************************************************************)
(* The state machine.  Every accessor call is one atomic step: the         *)
(* accessor takes its lock at the start of get/put/list/delete and         *)
(* releases it at the return, so a handler that reads and then writes      *)
(* holds no lock in between and other calls may run there.                 *)
(***************************************************************************)
MaxTime == 2
MaxNonces == 2
MaxRaceNonces == 1
MaxIssued == 2

Calls == {"c1", "c2"}

RoleName == <<"R", "1">>

NonceOf(n) == <<"n", IF n = 1 THEN "1" ELSE IF n = 2 THEN "2" ELSE "3">>

RoleFields ==
    {"secret_path", "secret_path_method", "secret_data", "secret_type",
     "secret_environment", "secret_aws_state_role", "secret_required_fields",
     "secret_ttl", "secret_max_ttl", "exclusive_lease", "min_approvers",
     "bound_requester_ids", "bound_requester_roles", "bound_approver_ids",
     "bound_approver_roles", "notify_slack_channels"}

ConfigFields ==
    {"approval_ttl", "vault_policies", "vault_addr", "identity_template",
     "slack_webhook_url"}

noData(fields) == [k \in fields |-> <<>>]

\* the role writes of the administrator
RoleData ==
    {[noData(RoleFields) EXCEPT
         !["secret_path"] = <<"aws/creds/admin">>,
         !["secret_path_method"] = <<"POST">>,
         !["min_approvers"] = <<2>>,
         !["bound_approver_ids"] = <<<<>>>>,
         !["bound_approver_roles"] = <<<<"sre">>>>,
         !["exclusive_lease"] = <<TRUE>>,
         !["notify_slack_channels"] = <<<<>>>>],
     [noData(RoleFields) EXCEPT
         !["secret_path"] = <<"aws/creds/admin">>,
         !["secret_path_method"] = <<"POST">>,
         !["min_approvers"] = <<1>>,
         !["bound_approver_ids"] = <<<<"bob">>>>,
         !["bound_approver_roles"] = <<<<>>>>,
         !["notify_slack_channels"] = <<<<"#ops", "#sec">>>>]}

\* the config write of the administrator (approval_ttl of one tick)
ConfigData == {[noData(ConfigFields) EXCEPT !["approval_ttl"] = <<1>>]}

Requesters == {"alice"}

idle ==
    [op |-> "", pc |-> "idle", name |-> <<>>, nonce |-> <<>>, caller |-> "",
     operation |-> "", config |-> <<>>, local |-> <<>>, again |-> FALSE]

noLast == [op |-> "", outcome |-> "", nonce |-> <<>>, caller |-> "",
           again |-> FALSE, slack |-> <<>>]

\* storage: the logical.Storage of the mount, key to entry
\* now: the clock, in ticks
\* calls: per thread, the call in flight with its position and locals
\* nonces: the number of nonces handed out
\* leases: the issue leases the host holds, by (role name, nonce)
\* issued: the secrets returned so far, by nonce
\* last: the response of the call that ended in the last step, if one did
\* world: the systems outside the mount that a backend calls (GitLab,
\*        Nexus, the clock of the runner cache); <<>> where none is used
VARIABLES storage, now, calls, nonces, leases, issued, last, world

vars == <<storage, now, calls, nonces, leases, issued, last, world>>

\* a mount after construction: empty storage, no call in flight
mountInit ==
    /\ storage = <<>>
    /\ now = 0
    /\ calls = [c \in Calls |-> idle]
    /\ nonces = 0
    /\ leases = EmptyBag
    /\ issued = EmptyBag
    /\ last = noLast

Init ==
    /\ mountInit
    /\ world = <<>>

\* a call may start on an idle thread; the second thread is used only
\* while the first is busy, and the first starts no call while the second
\* is busy
mayStart(c) ==
    /\ calls[c].pc = "idle"
    /\ c = "c2" => calls["c1"].pc # "idle"
    /\ c = "c1" => calls["c2"].pc = "idle"

begin(c, op, pc, caller, nonce) ==
    [idle EXCEPT !.op = op, !.pc = pc, !.name = RoleName, !.caller = caller,
                 !.nonce = nonce]

\* the call of thread c ends: slack holds, for an issue call that reached
\* the notification, what the post to each channel of the role gave
doneNotified(c, outcome, slack) ==
    /\ calls' = [calls EXCEPT ![c] = idle]
    /\ last' = [op |-> calls[c].op, outcome |-> outcome,
                nonce |-> calls[c].nonce, caller |-> calls[c].caller,
                again |-> calls[c].again, slack |-> slack]

done(c, outcome) == doneNotified(c, outcome, <<>>)

\* the nonces handed out so far
Nonces == {NonceOf(n) : n \in 1..nonces}

\* time passes, up to MaxTime; a call reads the clock in its first step,
\* and the clock moves while the second thread is idle
Tick ==
    /\ now < MaxTime
    /\ calls["c2"].pc = "idle"
    /\ now' = now + 1
    /\ last' = noLast
    /\ UNCHANGED <<storage, calls, nonces, leases, issued, world>>

\* pathConfigCreateUpdate
ConfigWrite ==
    \E d \in ConfigData, orphan \in {<<>>, <<"s.orphan">>} :
        LET r == configCreateUpdate(storage, d, orphan)
        IN  /\ calls["c1"].pc = "idle"
            /\ storage' = r.st
            /\ last' = [noLast EXCEPT !.op = "config",
                            !.outcome = IF r.err = "" THEN "ok" ELSE "error"]
            /\ UNCHANGED <<now, calls, nonces, leases, issued, world>>

\* a write to role/<name>: the framework runs the existence check and
\* calls pathRoleCreateUpdate as a create or as an update
RoleWriteStart(c) ==
    /\ mayStart(c)
    /\ calls' = [calls EXCEPT ![c] =
           [begin(c, "role", "role.get", "", <<>>) EXCEPT
               !.operation = IF pathRoleExistenceCheck(storage, RoleName)
                             THEN "update" ELSE "create"]]
    /\ last' = noLast
    /\ UNCHANGED <<storage, now, nonces, leases, issued, world>>

\* pathRoleCreateUpdate up to roleAccessor.put
RoleWriteGet(c) ==
    /\ calls[c].pc = "role.get"
    /\ \E d \in RoleData :
        LET r == roleCreateUpdate(backendRole(storage, calls[c].name), d,
                                  calls[c].operation)
        IN  IF r.err # ""
            THEN /\ done(c, "Invalid")
            ELSE /\ calls' = [calls EXCEPT ![c].pc = "role.put",
                                           ![c].local = <<r.role>>]
                 /\ last' = noLast
    /\ UNCHANGED <<storage, now, nonces, leases, issued, world>>

\* roleAccessor.put of pathRoleCreateUpdate
RoleWritePut(c) ==
    /\ calls[c].pc = "role.put"
    /\ storage' = accessorPut(storage, rolePath,
                              roleToJSON(calls[c].local[1]), <<calls[c].name>>)
    /\ done(c, "ok")
    /\ UNCHANGED <<now, nonces, leases, issued, world>>

\* pathRoleDelete
RoleDelete(c) ==
    /\ mayStart(c)
    /\ storage' = roleDelete(storage, RoleName)
    /\ calls' = calls
    /\ last' = [noLast EXCEPT !.op = "role.delete", !.outcome = "ok"]
    /\ UNCHANGED <<now, nonces, leases, issued, world>>

\* open, steps 1 to 3: the role, the config, the requester
OpenStart(c, max) ==
    /\ mayStart(c)
    /\ nonces < max
    /\ \E caller \in Requesters, apiOk \in BOOLEAN :
        LET r == openDecide(storage, RoleName, caller, apiOk)
        IN  IF r.outcome # ""
            THEN /\ calls' = calls
                 /\ last' = [noLast EXCEPT !.op = "open",
                                 !.outcome = r.outcome, !.caller = caller]
            ELSE /\ calls' = [calls EXCEPT ![c] =
                        [begin(c, "open", "open.list", caller, <<>>) EXCEPT
                            !.local = r.role,
                            !.config = backendConfig(storage)]]
                 /\ last' = noLast
    /\ UNCHANGED <<storage, now, nonces, leases, issued, world>>

\* open, steps 4 to 6: the exclusivity check, the nonce, the snapshot
OpenList(c, max) ==
    /\ calls[c].pc = "open.list"
    /\ IF exclusiveConflict(storage, calls[c].name, calls[c].local[1])
       THEN /\ done(c, "Conflict")
            /\ UNCHANGED nonces
       ELSE /\ nonces < max
            /\ nonces' = nonces + 1
            /\ calls' = [calls EXCEPT
                   ![c].pc = "open.put",
                   ![c].nonce = NonceOf(nonces + 1),
                   ![c].config = <<>>,
                   ![c].local = <<newRequest(calls[c].local[1],
                                             NonceOf(nonces + 1),
                                             calls[c].caller,
                                             calls[c].config[1], now)>>]
            /\ last' = noLast
    /\ UNCHANGED <<storage, now, leases, issued, world>>

\* open, step 7: the request is persisted
OpenPut(c) ==
    /\ calls[c].pc = "open.put"
    /\ storage' = accessorPut(storage, requestPath, calls[c].local[1],
                              <<calls[c].name, calls[c].nonce>>)
    /\ done(c, "ok")
    /\ UNCHANGED <<now, nonces, leases, issued, world>>

\* approve, steps 1 to 5
ApproveStart(c) ==
    /\ mayStart(c)
    /\ \E caller \in Callers, nonce \in Nonces, apiOk \in BOOLEAN :
        LET r == approveDecide(storage, RoleName, nonce, caller, now, apiOk)
        IN  IF r.outcome # ""
            THEN /\ calls' = calls
                 /\ last' = [noLast EXCEPT !.op = "approve",
                                 !.outcome = r.outcome, !.nonce = nonce,
                                 !.caller = caller]
            ELSE /\ calls' = [calls EXCEPT ![c] =
                        [begin(c, "approve", "approve.put", caller, nonce)
                         EXCEPT !.local = r.req,
                                !.again = StrListContains(
                                    backendRequest(storage, RoleName,
                                                   nonce)[1].approver_ids,
                                    getCallerIdentity(
                                        <<callerEntity(caller)>>,
                                        backendConfig(storage)[1]
                                            .IdentityTemplate)[1])]]
                 /\ last' = noLast
    /\ UNCHANGED <<storage, now, nonces, leases, issued, world>>

\* approve, step 6: the updated request is persisted
ApprovePut(c) ==
    /\ calls[c].pc = "approve.put"
    /\ storage' = accessorPut(storage, requestPath, calls[c].local[1],
                              <<calls[c].name, calls[c].nonce>>)
    /\ done(c, "ok")
    /\ UNCHANGED <<now, nonces, leases, issued, world>>

\* issue, steps 1 to 4 up to the downstream call
IssueStart(c) ==
    /\ mayStart(c)
    /\ BagCardinality(issued)
         + Cardinality({o \in Calls : calls[o].op = "issue"}) < MaxIssued
    /\ \E caller \in Callers, nonce \in Nonces :
        LET r == issueDecide(storage, RoleName, nonce, caller, now)
        IN  IF r.outcome # ""
            THEN /\ calls' = calls
                 /\ last' = [noLast EXCEPT !.op = "issue",
                                 !.outcome = r.outcome, !.nonce = nonce,
                                 !.caller = caller]
            ELSE /\ calls' = [calls EXCEPT ![c] =
                        [begin(c, "issue", "issue.call", caller, nonce)
                         EXCEPT !.local = <<backendRole(storage, RoleName)[1]
                                               .NotifySlackChannels>>]]
                 /\ last' = noLast
    /\ UNCHANGED <<storage, now, nonces, leases, issued, world>>

\* issue, steps 4 and 5: the downstream call and, when it succeeded, the
\* Issue record
IssueCall(c) ==
    /\ calls[c].pc = "issue.call"
    /\ \E ok \in BOOLEAN :
        IF ~ok
        THEN /\ done(c, "UpstreamFailure")
             /\ UNCHANGED storage
        ELSE /\ storage' = accessorPut(storage, issuePath,
                    [name |-> calls[c].name, nonce |-> calls[c].nonce],
                    <<calls[c].name, calls[c].nonce>>)
             /\ calls' = [calls EXCEPT ![c].pc = "issue.delete"]
             /\ last' = noLast
    /\ UNCHANGED <<now, nonces, leases, issued, world>>

\* issue, steps 5 and 6: the consumed request is deleted, the channels
\* of the role are notified and the leased secret is returned; a failed
\* notification aborts the call
IssueFinish(c) ==
    /\ calls[c].pc = "issue.delete"
    /\ storage' = accessorDelete(storage, requestPath,
                                 <<calls[c].name, calls[c].nonce>>)
    /\ \E sendOk \in [DOMAIN calls[c].local[1] -> BOOLEAN] :
        IF sendSlackNotifications(calls[c].local[1], sendOk) # <<>>
        THEN /\ doneNotified(c, "UpstreamFailure", sendOk)
             /\ UNCHANGED <<leases, issued>>
        ELSE /\ doneNotified(c, "ok", sendOk)
             /\ leases' = leases (+) SetToBag({[name |-> calls[c].name,
                                                 nonce |-> calls[c].nonce]})
             /\ issued' = issued (+) SetToBag({calls[c].nonce})
    /\ UNCHANGED <<now, nonces, world>>

\* the host revokes a lease: secretApprovedSecretIssueRevoke with the
\* internal data of the lease
IssueRevoke ==
    \E l \in BagToSet(leases) :
        LET r == secretApprovedSecretIssueRevoke(storage, l.name, l.nonce)
        IN  /\ calls["c1"].pc = "idle"
            /\ storage' = r.st
            /\ leases' = leases (-) SetToBag({l})
            /\ last' = [noLast EXCEPT !.op = "revoke", !.nonce = l.nonce,
                            !.outcome = IF r.resp = "" THEN "ok" ELSE "error"]
            /\ UNCHANGED <<now, calls, nonces, issued, world>>

Next ==
    \/ Tick
    \/ ConfigWrite
    \/ \E c \in Calls : RoleWriteStart(c)
    \/ \E c \in Calls : RoleWriteGet(c)
    \/ \E c \in Calls : RoleWritePut(c)
    \/ \E c \in Calls : RoleDelete(c)
    \/ \E c \in Calls : OpenStart(c, MaxRaceNonces)
    \/ \E c \in Calls : OpenList(c, MaxRaceNonces)
    \/ \E c \in Calls : OpenPut(c)
    \/ \E c \in Calls : ApproveStart(c)
    \/ \E c \in Calls : ApprovePut(c)
    \/ \E c \in Calls : IssueStart(c)
    \/ \E c \in Calls : IssueCall(c)
    \/ \E c \in Calls : IssueFinish(c)
    \/ IssueRevoke

\* two calls at a time, on the requests of MaxRaceNonces nonces
Spec == Init /\ [][Next]_vars

NextSeq ==
    \/ Tick
    \/ ConfigWrite
    \/ RoleWriteStart("c1")
    \/ RoleWriteGet("c1")
    \/ RoleWritePut("c1")
    \/ RoleDelete("c1")
    \/ OpenStart("c1", MaxNonces)
    \/ OpenList("c1", MaxNonces)
    \/ OpenPut("c1")
    \/ ApproveStart("c1")
    \/ ApprovePut("c1")
    \/ IssueStart("c1")
    \/ IssueCall("c1")
    \/ IssueFinish("c1")
    \/ IssueRevoke

\* one call at a time, on the requests of MaxNonces nonces
SeqSpec == Init /\ [][NextSeq]_vars

(***************************************************************************)
(* Properties                                                              *)
(***************************************************************************)
\* the identities of approver_ids, each counted once
distinctApprovers(req) == Cardinality(Range(req.approver_ids))

\* the issue call of caller on nonce at tNow is one by the requester on a
\* stored, unexpired request, with the config and the role in place
issuable(st, nonce, caller, tNow) ==
    LET req == backendRequest(st, RoleName, nonce)
        cfg == backendConfig(st)
    IN  /\ req # <<>>
        /\ ~(tNow > req[1].expires_at)
        /\ cfg # <<>>
        /\ getCallerIdentity(<<callerEntity(caller)>>, cfg[1].IdentityTemplate)
               = <<req[1].requester_id>>
        /\ backendRole(st, RoleName) # <<>>

\* a call that was refused in its first step
refused(op) == last'.op = op /\ calls' = calls

\* call c passes from idle to the step pc
enters(c, pc) == calls[c].pc = "idle" /\ calls'[c].pc = pc

\* C1 (as amended): an issue call goes on to the downstream call only for a
\* request holding at least min_approvers distinct approver identities,
\* and an issue call by the requester on a stored, unexpired request (role
\* and config in place) is refused exactly when the request holds fewer
\* than min_approvers distinct identities.
C1_IssueNeedsDistinctApprovers ==
    [][/\ \A c \in Calls : enters(c, "issue.call") =>
              /\ issuable(storage, calls'[c].nonce, calls'[c].caller, now)
              /\ LET req == backendRequest(storage, RoleName, calls'[c].nonce)[1]
                 IN  distinctApprovers(req) >= req.min_approvers
       /\ (refused("issue") /\ issuable(storage, last'.nonce, last'.caller, now))
              => LET req == backendRequest(storage, RoleName, last'.nonce)[1]
                 IN  distinctApprovers(req) < req.min_approvers]_vars

\* C1: a secret was returned for a request of min_approvers 2 that two
\* distinct identities approved
C1_Witness ==
    /\ last.op = "issue" /\ last.outcome = "ok"
    /\ BagIn(last.nonce, issued)
    /\ backendRole(storage, RoleName) # <<>>
    /\ backendRole(storage, RoleName)[1].MinApprovers = 2

\* C1 (as written): whenever an issue call did not return a secret, the
\* stored request holds fewer than min_approvers distinct approvers.
C1_AsWritten ==
    (last.op = "issue" /\ last.outcome # "ok") =>
        LET req == backendRequest(storage, RoleName, last.nonce)
        IN  req = <<>> \/ distinctApprovers(req[1]) < req[1].min_approvers

\* call c takes its last step from pc
leaves(c, pc) == calls[c].pc = pc /\ calls'[c].pc = "idle"

\* C2: the put of an approve call keeps every approver identity that the
\* stored request held when the put was made: the approvals of concurrent
\* calls are all in the stored request in the end.
C2_NoLostApproval ==
    [][\A c \in Calls : leaves(c, "approve.put") =>
           LET before == backendRequest(storage, calls[c].name, calls[c].nonce)
               after == backendRequest(storage', calls[c].name, calls[c].nonce)
           IN  before # <<>> =>
                   Range(before[1].approver_ids)
                       \subseteq Range(after[1].approver_ids)]_vars

\* C3: between the role get of a role write and its own put, no other call
\* changes the entry in the role namespace.
C3_RoleWriteNotInterleaved ==
    [][\A c \in Calls :
           (calls[c].pc = "role.put" /\ calls'[c].pc = "role.put") =>
               accessorGet(storage', rolePath, <<calls[c].name>>)
                   = accessorGet(storage, rolePath, <<calls[c].name>>)]_vars

\* C4: over all issue calls on one nonce, at most one returns a secret.
C4_IssuedAtMostOnce == \A n \in BagToSet(issued) : CopiesIn(n, issued) <= 1

\* the request under nonce is stored and past its expires_at at tNow
expired(st, nonce, tNow) ==
    LET req == backendRequest(st, RoleName, nonce)
    IN  req # <<>> /\ tNow > req[1].expires_at

\* C5: an approve or issue call made when the stored request is past its
\* expires_at is refused with Expired in its first step: it changes nothing
\* in the storage, goes on to no put and to no downstream call, and returns
\* no secret, whatever approvals the request holds.
C5_ExpiredRefused ==
    [][/\ \A c \in Calls :
              (enters(c, "approve.put") \/ enters(c, "issue.call"))
                  => ~expired(storage, calls'[c].nonce, now)
       /\ \A op \in {"approve", "issue"} :
              (refused(op) /\ expired(storage, last'.nonce, now))
                  => /\ last'.outcome = "Expired"
                     /\ storage' = storage
                     /\ issued' = issued]_vars

\* C5: issue was refused with Expired on a request holding the approvals
\* its min_approvers asks for
C5_Witness ==
    /\ last.op = "issue" /\ last.outcome = "Expired"
    /\ LET req == backendRequest(storage, RoleName, last.nonce)
       IN  /\ req # <<>>
           /\ now > req[1].expires_at
           /\ distinctApprovers(req[1]) >= req[1].min_approvers

\* C6: when an identity already in approver_ids approves the unexpired
\* request again, the request the call persists holds the approver_ids it
\* loaded, as many as before, and expires_at is the time of the call plus
\* approval_ttl.
C6_ReapproveIdempotent ==
    [][\A c \in Calls :
           /\ (enters(c, "approve.put") /\ calls'[c].again) =>
                  LET req == backendRequest(storage, RoleName, calls'[c].nonce)[1]
                      new == calls'[c].local[1]
                  IN  /\ new.approver_ids = req.approver_ids
                      /\ Len(new.approver_ids) = Len(req.approver_ids)
                      /\ new.expires_at
                             = now + backendConfig(storage)[1].ApprovalTTL
                      /\ new = [req EXCEPT !.expires_at = new.expires_at]
           /\ (leaves(c, "approve.put") /\ calls[c].again) =>
                  backendRequest(storage', calls[c].name, calls[c].nonce)
                      = calls[c].local]_vars

\* C6: a re-approval went through one tick after the first approval and
\* moved expires_at on
C6_Witness ==
    /\ last.op = "approve" /\ last.outcome = "ok" /\ last.again
    /\ LET req == backendRequest(storage, RoleName, last.nonce)
       IN  /\ req # <<>>
           /\ StrListContains(req[1].approver_ids, last.caller)
           /\ req[1].expires_at = 2

\* the caller is outside a non-empty bound list snapshotted in req
notBoundApprover(st, req, caller) ==
    LET entity == callerEntity(caller)
        id == getCallerIdentity(<<entity>>, backendConfig(st)[1].IdentityTemplate)
        primaryRoles == {entity.Groups[i][1] :
                             i \in {j \in DOMAIN entity.Groups :
                                        entity.Groups[j] # <<>>}}
    IN  \/ /\ req.bound_approver_ids # <<>>
           /\ id # <<>> => id[1] \notin Range(req.bound_approver_ids)
        \/ /\ req.bound_approver_roles # <<>>
           /\ primaryRoles \cap Range(req.bound_approver_roles) = {}

\* the request under nonce is stored and unexpired, and the config is there
approvable(st, nonce, tNow) ==
    /\ backendRequest(st, RoleName, nonce) # <<>>
    /\ ~expired(st, nonce, tNow)
    /\ backendConfig(st) # <<>>

\* C7: an approve call on a stored, unexpired request by a caller outside
\* a non-empty bound_approver_ids or bound_approver_roles of the request's
\* snapshot is refused with PermissionDenied, goes on to no put and leaves
\* the storage, and with it approver_ids, as it was.
C7_UnboundApproverDenied ==
    [][/\ \A c \in Calls : enters(c, "approve.put") =>
              ~notBoundApprover(storage,
                   backendRequest(storage, RoleName, calls'[c].nonce)[1],
                   calls'[c].caller)
       /\ (/\ refused("approve")
           /\ approvable(storage, last'.nonce, now)
           /\ notBoundApprover(storage,
                  backendRequest(storage, RoleName, last'.nonce)[1],
                  last'.caller))
              => /\ last'.outcome = "PermissionDenied"
                 /\ storage' = storage]_vars

\* C7: dave, whose role is ops, was refused on a request bound to the
\* approver role sre that already holds an approval
C7_Witness ==
    /\ last.op = "approve" /\ last.outcome = "PermissionDenied"
    /\ last.caller = "dave"
    /\ LET req == backendRequest(storage, RoleName, last.nonce)
       IN  /\ req # <<>>
           /\ req[1].bound_approver_roles = <<"sre">>
           /\ req[1].approver_ids # <<>>
           /\ ~StrListContains(req[1].approver_ids, "dave")

\* the keys of the request accessor with their entries
requests(st) ==
    [k \in {x \in DOMAIN st : IsPrefix(requestPath \o <<"/">>, x)} |-> st[k]]

\* the approver constraints a request carries
constraints(req) ==
    <<req.bound_approver_ids, req.bound_approver_roles, req.min_approvers>>

\* C8: a role write or delete changes no request; a stored request keeps
\* the approver constraints it was opened with, which are those of the role
\* as open read it; and an approve call goes on to its put, and an issue
\* call to the downstream call, only by these constraints of the request,
\* whatever the role says by then.
C8_SnapshotIsolation ==
    [][/\ \A c \in Calls :
              (leaves(c, "role.put") \/ last'.op = "role.delete")
                  => requests(storage') = requests(storage)
       /\ \A k \in DOMAIN requests(storage) \cap DOMAIN requests(storage') :
              constraints(storage'[k]) = constraints(storage[k])
       /\ \A c \in Calls :
              (calls[c].pc = "open.list" /\ calls'[c].pc = "open.put") =>
                  constraints(calls'[c].local[1])
                      = <<calls[c].local[1].BoundApproverIDs,
                          calls[c].local[1].BoundApproverRoles,
                          calls[c].local[1].MinApprovers>>
       /\ \A c \in Calls : enters(c, "approve.put") =>
              LET req == backendRequest(storage, RoleName, calls'[c].nonce)[1]
              IN  /\ ~notBoundApprover(storage, req, calls'[c].caller)
                  /\ constraints(calls'[c].local[1]) = constraints(req)
       /\ \A c \in Calls : enters(c, "issue.call") =>
              LET req == backendRequest(storage, RoleName, calls'[c].nonce)[1]
              IN  distinctApprovers(req) >= req.min_approvers]_vars

\* C8: alice's approval went through on a request opened under the
\* approver role sre after the role had been rewritten to bind bob alone
C8_Witness ==
    /\ last.op = "approve" /\ last.outcome = "ok" /\ last.caller = "alice"
    /\ LET req == backendRequest(storage, RoleName, last.nonce)
           role == backendRole(storage, RoleName)
       IN  /\ req # <<>> /\ role # <<>>
           /\ req[1].bound_approver_roles = <<"sre">>
           /\ req[1].min_approvers = 2
           /\ role[1].BoundApproverIDs = <<"bob">>
           /\ role[1].MinApprovers = 1

\* the keys of the issue accessor under the role name
issuesOf(st, name) ==
    {k \in DOMAIN st : IsPrefix(issuePath \o <<"/">> \o ToLower(name) \o <<"/">>, k)}

\* C9: the exclusivity step of open, for a role read with exclusive_lease
\* true, ends the call with Conflict and neither takes a nonce nor changes
\* the storage when an Issue record of the role is stored, and goes on to
\* create the request when none is; a lease revocation removes the Issue
\* record of its (role, nonce), and nothing else.
C9_ExclusiveLease ==
    [][/\ (calls["c1"].pc = "open.list"
           /\ calls["c1"].pc # calls'["c1"].pc
           /\ calls["c1"].local[1].ExclusiveLease) =>
              IF issuesOf(storage, calls["c1"].name) # {}
              THEN /\ last'.op = "open" /\ last'.outcome = "Conflict"
                   /\ calls'["c1"].pc = "idle"
                   /\ storage' = storage
                   /\ nonces' = nonces
              ELSE calls'["c1"].pc = "open.put"
       /\ last'.op = "revoke" =>
              /\ backendIssue(storage', RoleName, last'.nonce) = <<>>
              /\ \A k \in DOMAIN storage :
                     k # accessorKey(issuePath, <<RoleName, last'.nonce>>)
                         => k \in DOMAIN storage' /\ storage'[k] = storage[k]
              /\ issuesOf(storage', RoleName)
                     = issuesOf(storage, RoleName)
                           \ {accessorKey(issuePath, <<RoleName, last'.nonce>>)}
       ]_vars

\* C9: a second request was opened under the exclusive role after the
\* lease of the first, issued, nonce had been revoked
C9_Witness ==
    /\ last.op = "open" /\ last.outcome = "ok"
    /\ last.nonce = NonceOf(2)
    /\ BagIn(NonceOf(1), issued)
    /\ leases = EmptyBag
    /\ issuesOf(storage, RoleName) = {}
    /\ backendRole(storage, RoleName) # <<>>
    /\ backendRole(storage, RoleName)[1].ExclusiveLease

\* C9: open was refused with Conflict while the lease was out
C9_WitnessConflict ==
    /\ last.op = "open" /\ last.outcome = "Conflict"
    /\ issuesOf(storage, RoleName) # {}

\* C10: a role delete removes the entry of the role and leaves every other
\* key of the storage, the Request and the Issue records among them, with
\* the entry it had.
C10_RoleDeleteFrame ==
    [][last'.op = "role.delete" =>
           /\ accessorGet(storage', rolePath, <<RoleName>>) = <<>>
           /\ \A k \in DOMAIN storage :
                  k # accessorKey(rolePath, <<RoleName>>)
                      => k \in DOMAIN storage' /\ storage'[k] = storage[k]
           /\ DOMAIN storage' \subseteq DOMAIN storage]_vars

\* C10: the role was deleted with a Request and an Issue record of it in
\* the storage, and both are still there
C10_Witness ==
    /\ last.op = "role.delete"
    /\ backendRole(storage, RoleName) = <<>>
    /\ DOMAIN requests(storage) # {}
    /\ issuesOf(storage, RoleName) # {}


(***************************************************************************)
(* Role administration on its own: one administrator writes, reads, lists  *)
(* and deletes roles, one call after the other, under names that differ    *)
(* in case only and with every kind of field value.                        *)
(***************************************************************************)
RoleNames == {<<"R", "1">>, <<"r", "1">>}

\* the requests of the administrator: a field is absent (<<>>) or given
\* (durations in seconds, as the framework hands them over)
AdminRoleData ==
    {[noData(RoleFields) EXCEPT
         !["secret_path"] = <<"aws/creds/admin">>,
         !["secret_path_method"] = m,
         !["secret_data"] = sd,
         !["secret_ttl"] = ttl,
         !["secret_max_ttl"] = max,
         !["min_approvers"] = n,
         !["bound_approver_ids"] = lists[1],
         !["notify_slack_channels"] = lists[2]] :
        m \in {<<>>, <<"POST">>, <<"PUT">>},
        sd \in {<<>>, <<"alt_names=example.com">>},
        ttl \in {<<>>, <<3600>>, <<108000>>},
        max \in {<<>>, <<0>>, <<172800>>},
        n \in {<<>>, <<0>>, <<2>>},
        lists \in {<<<<>>, <<>>>>,
                   <<<<<<"bob", "dave">>>>, <<<<"#ops">>>>>>}}

\* the administrator sends a write to role/<name>
RoleRequest ==
    /\ calls["c1"].pc = "idle"
    /\ \E name \in RoleNames, d \in AdminRoleData :
        calls' = [calls EXCEPT !["c1"] =
            [idle EXCEPT !.op = "role", !.pc = "role.write", !.name = name,
                         !.local = <<d>>]]
    /\ last' = noLast
    /\ UNCHANGED <<storage, now, nonces, leases, issued, world>>

\* the write is served: the existence check, then pathRoleCreateUpdate as
\* a whole
RoleCreateUpdate ==
    /\ calls["c1"].pc = "role.write"
    /\ LET name == calls["c1"].name
           operation == IF pathRoleExistenceCheck(storage, name)
                        THEN "update" ELSE "create"
           r == roleCreateUpdate(backendRole(storage, name),
                                 calls["c1"].local[1], operation)
       IN  /\ storage' = IF r.err # "" THEN storage
                         ELSE accessorPut(storage, rolePath,
                                          roleToJSON(r.role), <<name>>)
           /\ last' = [op |-> "role.write", name |-> name,
                       operation |-> operation, err |-> r.err,
                       warning |-> r.warning,
                       changed |-> (storage' # storage)]
    /\ calls' = [calls EXCEPT !["c1"] = idle]
    /\ UNCHANGED <<now, nonces, leases, issued, world>>

\* a read of role/<name>; deleted tells that the call before it was a
\* delete of a role that was there
RoleRead ==
    /\ calls["c1"].pc = "idle"
    /\ \E name \in RoleNames :
        LET r == pathRoleRead(storage, name)
        IN  /\ last' = [op |-> "role.read", name |-> name, err |-> r.err,
                        data |-> r.data,
                        deleted |-> (last.op = "role.delete"
                                     /\ last.existed)]
            /\ UNCHANGED <<storage, now, calls, nonces, leases, issued, world>>

\* a list of role/
RoleList ==
    /\ calls["c1"].pc = "idle"
    /\ last' = [op |-> "role.list", keys |-> pathRoleList(storage)]
    /\ UNCHANGED <<storage, now, calls, nonces, leases, issued, world>>

\* a delete of role/<name>: the response is empty; existed tells whether
\* there was a role to delete
RoleAdminDelete ==
    /\ calls["c1"].pc = "idle"
    /\ \E name \in RoleNames :
        /\ storage' = roleDelete(storage, name)
        /\ last' = [op |-> "role.delete", name |-> name, err |-> "",
                    existed |-> pathRoleExistenceCheck(storage, name)]
        /\ UNCHANGED <<now, calls, nonces, leases, issued, world>>

NextRole ==
    \/ RoleRequest
    \/ RoleCreateUpdate
    \/ RoleRead
    \/ RoleList
    \/ RoleAdminDelete

RoleSpec == Init /\ [][NextRole]_vars

(***************************************************************************)
(* Properties of role administration                                       *)
(***************************************************************************)
\* the role a pending write would leave: the stored role, overlaid with
\* the fields of the request in flight
pendingRole ==
    LET name == calls["c1"].name
    IN  roleCreateUpdate(backendRole(storage, name), calls["c1"].local[1],
                         IF pathRoleExistenceCheck(storage, name)
                         THEN "update" ELSE "create").role

invalidRole(role) ==
    \/ role.MinApprovers < 1
    \/ role.SecretPathMethod \notin {"GET", "POST"}
    \/ role.SecretPathMethod = "GET" /\ role.SecretData # <<>>

\* C11: a role write whose resulting role has min_approvers < 1, a method
\* other than GET and POST, or secret_data with GET, ends with an error
\* response and leaves the storage, the role under that name included,
\* as it was.
C11_InvalidRoleRejected ==
    [][(calls["c1"].pc = "role.write" /\ invalidRole(pendingRole))
       => /\ last'.op = "role.write"
          /\ last'.err # ""
          /\ storage' = storage]_vars

\* a write with min_approvers 0 to an existing role was refused
C11_Witness ==
    /\ last.op = "role.write"
    /\ last.operation = "update"
    /\ last.err = errBadMinApprovers
    /\ backendRole(storage, last.name) # <<>>

\* the roles in the storage
storedRoles ==
    {backendRole(storage, name)[1] :
        name \in {n \in RoleNames : backendRole(storage, n) # <<>>}}

\* C12: every stored role has secret_ttl <= secret_max_ttl (read in favour
\* of the code: when both are set, a secret_max_ttl of 0 being no maximum).
C12_TTLWithinMax ==
    \A role \in storedRoles :
        (role.SecretTTL > 0 /\ role.SecretMaxTTL > 0)
            => role.SecretTTL <= role.SecretMaxTTL

\* every stored role is within the mount maximum, and a write accepted
\* with the warning stored the maximum
maxTTLWithinMount ==
    /\ \A role \in storedRoles : role.SecretMaxTTL <= Second * MaxLeaseTTL
    /\ (last.op = "role.write" /\ last.err = "" /\ last.warning)
        => backendRole(storage, last.name)[1].SecretMaxTTL
               = Second * MaxLeaseTTL

\* an accepted write that supplies a secret_max_ttl above MaxLeaseTTL
\* stores MaxLeaseTTL and carries the warning; one that supplies a value
\* within it stores that value without the warning
clampStep ==
    (calls["c1"].pc = "role.write" /\ last'.err = "")
    => LET d == calls["c1"].local[1]
           stored == backendRole(storage', calls["c1"].name)[1]
       IN  /\ (GetOk(d, "secret_max_ttl")
               /\ Val(d, "secret_max_ttl") > MaxLeaseTTL)
              => /\ stored.SecretMaxTTL = Second * MaxLeaseTTL
                 /\ last'.warning
           /\ (GetOk(d, "secret_max_ttl")
               /\ Val(d, "secret_max_ttl") <= MaxLeaseTTL)
              => /\ stored.SecretMaxTTL = Second * Val(d, "secret_max_ttl")
                 /\ ~last'.warning

\* C13: every role stored by a create/update has secret_max_ttl <=
\* MaxLeaseTTL of the mount; a larger supplied secret_max_ttl is stored as
\* MaxLeaseTTL and the response carries the truncation warning.
C13_MaxTTLClamped == []maxTTLWithinMount /\ [][clampStep]_vars

\* a create with secret_max_ttl of 48 hours was accepted with the warning
\* and stored 24 hours
C13_Witness ==
    /\ last.op = "role.write"
    /\ last.err = ""
    /\ last.warning
    /\ backendRole(storage, last.name)[1].SecretMaxTTL = Second * MaxLeaseTTL

(***************************************************************************)
(* Lease revocation delivered more than once: the host may send the        *)
(* revocation of a lease again after the hook has answered.                *)
(***************************************************************************)
IssueRevokeRetry ==
    /\ calls["c1"].pc = "idle"
    /\ last.op = "revoke"
    /\ LET r == secretApprovedSecretIssueRevoke(storage, RoleName, last.nonce)
       IN  /\ storage' = r.st
           /\ last' = [last EXCEPT
                           !.outcome = IF r.resp = "" THEN "ok" ELSE "error",
                           !.again = TRUE]
    /\ UNCHANGED <<now, calls, nonces, leases, issued, world>>

NextRevoke ==
    \/ NextSeq
    \/ IssueRevokeRetry

RevokeSpec == Init /\ [][NextRevoke]_vars

issueKey(nonce) == accessorKey(issuePath, <<RoleName, nonce>>)

\* C14: the issue revoke hook answers without error whether or not the
\* Issue record is there; it removes that record and nothing else, so with
\* the record absent the storage is unchanged and a second revocation
\* leaves what the first left.
C14_RevokeIdempotent ==
    [][last'.op = "revoke"
       => /\ last'.outcome = "ok"
          /\ storage' = StorageDelete(storage, issueKey(last'.nonce))
          /\ issueKey(last'.nonce) \notin DOMAIN storage
                => storage' = storage
          /\ last'.again => storage' = storage]_vars

\* a lease was revoked a second time, its Issue record being gone
C14_Witness ==
    /\ last.op = "revoke"
    /\ last.again
    /\ last.outcome = "ok"
    /\ issueKey(last.nonce) \notin DOMAIN storage
    /\ BagCardinality(issued) > 0

(***************************************************************************)
(* The periodic function beside the administration of config and roles:    *)
(* the host runs it at any time between two calls.                         *)
(***************************************************************************)
PeriodicRenew ==
    /\ calls["c1"].pc = "idle"
    /\ \E loadOk \in BOOLEAN, defaultConfigOk \in BOOLEAN,
          newClientOk \in BOOLEAN, writeOk \in BOOLEAN :
        last' = [op |-> "renew",
                 config |-> backendConfig(storage) # <<>>,
                 loadOk |-> loadOk, defaultConfigOk |-> defaultConfigOk,
                 newClientOk |-> newClientOk, writeOk |-> writeOk,
                 outcome |-> vaultTokenRenewer(storage, loadOk,
                                 defaultConfigOk, newClientOk, writeOk)]
    /\ UNCHANGED <<storage, now, calls, nonces, leases, issued, world>>

NextRenew ==
    \/ Tick
    \/ ConfigWrite
    \/ RoleWriteStart("c1")
    \/ RoleWriteGet("c1")
    \/ RoleWritePut("c1")
    \/ RoleDelete("c1")
    \/ PeriodicRenew

RenewSpec == Init /\ [][NextRenew]_vars

\* C15: whatever the outcome of loading the config, of creating the Vault
\* client and of the renew-self write, a run of the periodic renewer
\* returns nil and does not panic.
C15_RenewerSwallowsFailures ==
    last.op = "renew" => last.outcome = "nil"

(***************************************************************************)
(* getCallerIdentity over the entities a request can come with: no entity  *)
(* (<<>>), or an entity with or without an ID and with up to MaxAliases    *)
(* aliases; the config holds no identity template or one.                  *)
(***************************************************************************)
MaxAliases == 3

AliasNames == {"alice", "bob", "dave"}

AliasLists == UNION {[1..n -> AliasNames] : n \in 0..MaxAliases}

Entities ==
    {<<>>} \cup
    {<<[EntityID |-> id, Aliases |-> as, Groups |-> <<>>]>> :
        id \in {"", "e1"}, as \in AliasLists}

IdentityTemplates == {"", "{{identity.entity.aliases.auth_plugin.name}}"}

ResolveIdentity ==
    /\ calls["c1"].pc = "idle"
    /\ \E entity \in Entities, tpl \in IdentityTemplates :
        last' = [op |-> "identity", entity |-> entity, tpl |-> tpl,
                 identity |-> getCallerIdentity(entity, tpl)]
    /\ UNCHANGED <<storage, now, calls, nonces, leases, issued, world>>

NextIdentity == ResolveIdentity

IdentitySpec == Init /\ [][NextIdentity]_vars

C16_WitnessTemplate ==
    /\ last.op = "identity"
    /\ last.tpl # ""
    /\ last.entity # <<>>
    /\ last.entity[1].EntityID = ""
    /\ Len(last.entity[1].Aliases) = 1
    /\ last.identity = <<>>

(***************************************************************************)
(* The request accessor on its own: put, get, delete and list under        *)
(* sub-keys that differ in letter case, and the revoke hook of a request   *)
(* lease, which deletes under the joined role/nonce as one sub-key.        *)
(***************************************************************************)
NonceNames == {<<"N", "a">>, <<"n", "a">>, <<"n", "b">>}

SubKeys ==
    {<<name>> : name \in RoleNames} \cup
    {<<name, nonce>> : name \in RoleNames, nonce \in NonceNames}

EntryValues == {"v1", "v2"}

AccessorPut ==
    /\ calls["c1"].pc = "idle"
    /\ \E k \in SubKeys, v \in EntryValues :
        /\ storage' = accessorPut(storage, requestPath, v, k)
        /\ last' = [op |-> "put", key |-> k, value |-> v]
    /\ UNCHANGED <<now, calls, nonces, leases, issued, world>>

AccessorGet ==
    /\ calls["c1"].pc = "idle"
    /\ \E k \in SubKeys :
        last' = [op |-> "get", key |-> k,
                 entry |-> accessorGet(storage, requestPath, k)]
    /\ UNCHANGED <<storage, now, calls, nonces, leases, issued, world>>

AccessorDelete ==
    /\ calls["c1"].pc = "idle"
    /\ \E k \in SubKeys :
        /\ storage' = accessorDelete(storage, requestPath, k)
        /\ last' = [op |-> "delete", key |-> k]
    /\ UNCHANGED <<now, calls, nonces, leases, issued, world>>

AccessorList ==
    /\ calls["c1"].pc = "idle"
    /\ \E name \in RoleNames :
        last' = [op |-> "list", key |-> <<name>>,
                 keys |-> accessorList(storage, requestPath, <<name>>)]
    /\ UNCHANGED <<storage, now, calls, nonces, leases, issued, world>>

\* the host revokes the lease of a request
RequestRevoke ==
    /\ calls["c1"].pc = "idle"
    /\ \E name \in RoleNames, nonce \in NonceNames :
        LET r == secretApprovedSecretRequestRevoke(storage, name, nonce)
        IN  /\ storage' = r.st
            /\ last' = [op |-> "revoke.request", key |-> <<name, nonce>>,
                        resp |-> r.resp]
    /\ UNCHANGED <<now, calls, nonces, leases, issued, world>>

NextAccessor ==
    \/ AccessorPut
    \/ AccessorGet
    \/ AccessorDelete
    \/ AccessorList
    \/ RequestRevoke

AccessorSpec == Init /\ [][NextAccessor]_vars

\* two characters that are the same letter in either case
sameLetter(a, b) ==
    \/ a = b
    \/ a \in DOMAIN UpperToLower /\ UpperToLower[a] = b
    \/ b \in DOMAIN UpperToLower /\ UpperToLower[b] = a

equalUpToCase(k1, k2) ==
    /\ Len(k1) = Len(k2)
    /\ \A i \in DOMAIN k1 :
        /\ Len(k1[i]) = Len(k2[i])
        /\ \A j \in DOMAIN k1[i] : sameLetter(k1[i][j], k2[i][j])

lowerCase(s) == \A i \in DOMAIN s : s[i] \notin DOMAIN UpperToLower

\* C17: what is put under k1 is what get under any k2 equal to k1 up to
\* case returns and what delete under k2 removes; the listing of the
\* parent shows the record once, in lower case; and the request revoke
\* hook, which joins role and nonce into one sub-key, removes the record
\* written under the two sub-keys.
C17_CaseNormalizedKeys ==
    /\ last.op = "put" =>
        /\ \A k2 \in SubKeys :
            equalUpToCase(last.key, k2)
                => accessorGet(storage, requestPath, k2) = <<last.value>>
        /\ Len(last.key) = 2 =>
            LET listed == accessorList(storage, requestPath,
                                       <<last.key[1]>>)
            IN  /\ ToLower(last.key[2]) \in listed
                /\ \A e \in listed : lowerCase(e)
                /\ Cardinality({e \in listed :
                       equalUpToCase(<<e>>, <<last.key[2]>>)}) = 1
    /\ last.op \in {"delete", "revoke.request"} =>
        \A k2 \in SubKeys :
            equalUpToCase(last.key, k2)
                => accessorGet(storage, requestPath, k2) = <<>>
    /\ last.op = "revoke.request" => last.resp = ""

\* the revoke hook has been called for (r1, na) with other records of the
\* role in the storage: they stay, the record of (r1, na) is gone
C17_Witness ==
    /\ last.op = "revoke.request"
    /\ last.key = <<<<"r", "1">>, <<"n", "a">>>>
    /\ accessorKey(requestPath, <<<<"r", "1">>, <<"n", "b">>>>)
           \in DOMAIN storage
    /\ accessorKey(requestPath, <<<<"r", "1">>>>) \in DOMAIN storage
    /\ accessorGet(storage, requestPath, <<<<"R", "1">>, <<"N", "a">>>>) = <<>>

\* a field of a request: the value given, or other when the field is absent
given(d, k, other) == IF GetOk(d, k) THEN Val(d, k) ELSE other

minimum(a, b) == IF a <= b THEN a ELSE b

\* the role a create of d should leave, field by field: what was given; for
\* a field not given its schema default, or the zero value when the schema
\* has none; secret_max_ttl no larger than the mount maximum
createdRole(d) ==
    [zeroRole EXCEPT
        !.SecretPath = given(d, "secret_path", ""),
        !.SecretPathMethod =
            given(d, "secret_path_method", DefaultSecretPathMethod),
        !.SecretData = IF GetOk(d, "secret_data")
                       THEN <<Val(d, "secret_data")>> ELSE <<>>,
        !.SecretTTL = Second * given(d, "secret_ttl", DefaultSecretTTL),
        !.SecretMaxTTL =
            Second * minimum(given(d, "secret_max_ttl", DefaultSecretMaxTTL),
                             MaxLeaseTTL),
        !.MinApprovers = given(d, "min_approvers", DefaultMinApprovers),
        !.BoundApproverIDs = given(d, "bound_approver_ids", <<>>),
        !.NotifySlackChannels = given(d, "notify_slack_channels", <<>>)]

\* the role of the claim as worded: exactly the values given, every field
\* not given at its zero value
createdRoleAsWritten(d) ==
    [zeroRole EXCEPT
        !.SecretPath = given(d, "secret_path", ""),
        !.SecretPathMethod = given(d, "secret_path_method", ""),
        !.SecretData = IF GetOk(d, "secret_data")
                       THEN <<Val(d, "secret_data")>> ELSE <<>>,
        !.SecretTTL = Second * given(d, "secret_ttl", 0),
        !.SecretMaxTTL = Second * given(d, "secret_max_ttl", 0),
        !.MinApprovers = given(d, "min_approvers", 0),
        !.BoundApproverIDs = given(d, "bound_approver_ids", <<>>),
        !.NotifySlackChannels = given(d, "notify_slack_channels", <<>>)]

\* the request in flight is served as a create and accepted
createAccepted ==
    /\ calls["c1"].pc = "role.write"
    /\ last'.op = "role.write"
    /\ last'.operation = "create"
    /\ last'.err = ""

\* the request in flight is the one whose create left the stored role
repeatedCreate ==
    /\ calls["c1"].pc = "role.write"
    /\ backendRole(storage, calls["c1"].name)
           = <<createdRole(calls["c1"].local[1])>>

C20_NotifyFailClosed ==
    [][(calls["c1"].pc = "issue.delete" /\ calls'["c1"].pc = "idle"
        /\ \E i \in DOMAIN last'.slack : ~last'.slack[i])
       => /\ last'.op = "issue"
          /\ last'.outcome = "UpstreamFailure"
          /\ issued' = issued
          /\ leases' = leases]_vars

\* an issue call that had passed every check and the downstream call was
\* aborted because the post to the second channel failed
C20_Witness ==
    /\ last.op = "issue"
    /\ last.outcome = "UpstreamFailure"
    /\ last.slack = <<TRUE, FALSE>>
    /\ BagCardinality(issued) = 0

(***************************************************************************)
(* The gitlab-runner auth backend: pathAuthLogin from the runner lookup    *)
(* on.  world holds the package variables runners (nil is <<>>) and        *)
(* runnersLastUpdate; the clock is now, in hours.  What GitLab answers is  *)
(* an input of the call: whether ListAllRunners succeeds, whether the      *)
(* runner is in the list and with what status, and what ListRunnerJobs     *)
(* gives at each attempt of the retry loop.                                *)
(***************************************************************************)
runnersExpiry == 1

maxRetries == 3

errJobNotOnRunner == "job not running on runner"

\* getGitlabRunner, under runnersLock from start to return: the package
\* variables after the call and the runner found.  A runner that is not in
\* the list makes the error message read runner.ID of the nil runner.
getGitlabRunner(w, tNow, listOk, fetched) ==
    LET refetch == w.runners = <<>> \/ w.runnersLastUpdate + runnersExpiry > tNow
        w1 == IF ~refetch THEN w
              ELSE IF ~listOk THEN [w EXCEPT !.runners = <<>>]
              ELSE [w EXCEPT !.runners = <<fetched>>,
                             !.runnersLastUpdate = tNow]
    IN  IF refetch /\ ~listOk
        THEN [w |-> w1, outcome |-> "error", runner |-> <<>>,
              refetch |-> refetch]
        ELSE IF ~w1.runners[1].listed
        THEN [w |-> w1, outcome |-> "panic", runner |-> <<>>,
              refetch |-> refetch]
        ELSE [w |-> w1, outcome |-> "", runner |-> w1.runners,
              refetch |-> refetch]

\* verifyGitlabRunner: "" for nil, errJobNotOnRunner, or another error.
\* jobs is what ListRunnerJobs gave ("error", "absent", "found"); role is
\* the role as b.role returns it at that moment (<<>> for nil, and then
\* errors.Wrapf of a nil error is nil)
verifyGitlabRunner(runner, jobs, role) ==
    IF runner.status # "online" THEN "runner not online"
    ELSE IF jobs = "error" THEN "failed to get running jobs on runner"
    ELSE IF jobs = "absent" THEN errJobNotOnRunner
    ELSE IF role = <<>> THEN ""
    ELSE IF Len(role[1].BoundRunnerTokens) > 0
            /\ ~StrListContains(role[1].BoundRunnerTokens, runner.token)
    THEN "runner with token not permitted"
    ELSE ""

\* the retry loop of pathAuthLogin and what follows it: the errors of the
\* calls made, and "auth" when the Auth response is returned
RECURSIVE retryLoop(_, _, _, _, _)
retryLoop(runner, jobs, role, retry, errs) ==
    IF retry < maxRetries
    THEN LET err == verifyGitlabRunner(runner, jobs[retry + 1], role)
         IN  IF err = errJobNotOnRunner
             THEN retryLoop(runner, jobs, role, retry + 1, Append(errs, err))
             ELSE IF err # ""
             THEN [outcome |-> "denied", errs |-> Append(errs, err)]
             ELSE [outcome |-> "auth", errs |-> Append(errs, err)]
    ELSE [outcome |-> "auth", errs |-> errs]

RunnerRoles ==
    {<<>>, <<[BoundRunnerTokens |-> <<>>]>>,
     <<[BoundRunnerTokens |-> <<"tok1">>]>>}

RunnerLists ==
    {[listed |-> l, status |-> st, token |-> tok] :
        l \in BOOLEAN, st \in {"online", "offline"}, tok \in {"tok1", "tok2"}}

InitRunner ==
    /\ mountInit
    /\ world = [runners |-> <<>>, runnersLastUpdate |-> 0]

\* pathAuthLogin, the role, config, job, user and group checks having
\* passed
Login ==
    /\ calls["c1"].pc = "idle"
    /\ \E listOk \in BOOLEAN, fetched \in RunnerLists, role \in RunnerRoles,
          jobs \in [1..maxRetries -> {"error", "absent", "found"}] :
        LET g == getGitlabRunner(world, now, listOk, fetched)
            r == IF g.outcome # "" THEN [outcome |-> g.outcome, errs |-> <<>>]
                 ELSE retryLoop(g.runner[1], jobs, role, 0, <<>>)
        IN  /\ world' = g.w
            /\ last' = [op |-> "login", outcome |-> r.outcome,
                        errs |-> r.errs, refetch |-> g.refetch,
                        age |-> IF g.w.runners = <<>> THEN 0
                                ELSE now - g.w.runnersLastUpdate]
    /\ UNCHANGED <<storage, now, calls, nonces, leases, issued>>

NextRunner ==
    \/ Tick
    \/ Login

RunnerSpec == InitRunner /\ [][NextRunner]_vars

\* C21: a login of the gitlab-runner backend returns an Auth response only
\* if some call of verifyGitlabRunner returned without an error; when every
\* attempt of the retry loop fails with errJobNotOnRunner the login is
\* denied.
C21_AuthOnlyIfVerified ==
    (last.op = "login" /\ last.outcome = "auth")
        => \E i \in DOMAIN last.errs : last.errs[i] = ""

\* C22: a runner lookup never answers from a cached list older than
\* runnersExpiry: the list is fetched again whenever it is absent or older
\* than that.
C22_CacheNeverStale ==
    (last.op = "login" /\ last.outcome \in {"auth", "denied"})
        => last.age <= runnersExpiry

(***************************************************************************)
(* The gitlab-admin backend.  world is GitLab: the admin flag of each      *)
(* user, the impersonation tokens that are active, and how many were ever  *)
(* created (a token is named by its id).  The configs are in storage under *)
(* the config accessor, the gitlab_admin leases in leases.                 *)
(***************************************************************************)
MaxTokens == 3
MaxAdminLeases == 2

GitlabUsers == {"u1", "u2"}

GitlabConfig == <<"G">>

gitlabAdminConfig(st) == accessorGet(st, configPath, <<GitlabConfig>>)

\* gitlab.go: every call authenticates with the token of the client
createToken(w, cltToken, ok) ==
    IF ok /\ cltToken \in w.valid
    THEN [err |-> FALSE, tokenID |-> w.created + 1,
          w |-> [w EXCEPT !.valid = @ \cup {w.created + 1},
                          !.created = @ + 1]]
    ELSE [err |-> TRUE, tokenID |-> 0, w |-> w]

revokeToken(w, cltToken, tokenID, ok) ==
    IF ok /\ cltToken \in w.valid
    THEN [err |-> FALSE, w |-> [w EXCEPT !.valid = @ \ {tokenID}]]
    ELSE [err |-> TRUE, w |-> w]

\* Users.ModifyUser(userID, Admin: admin)
modifyUser(w, cltToken, userID, admin, ok) ==
    IF ok /\ cltToken \in w.valid
    THEN [err |-> FALSE, w |-> [w EXCEPT !.admin[userID] = admin]]
    ELSE [err |-> TRUE, w |-> w]

\* a mutant of pathRotateTokenStep: a failed write of the config does not
\* end the call
pathRotateTokenRevokeAnyway(pc, err) ==
    IF pc = "rotate.put" THEN "rotate.revoke"
    ELSE IF err THEN "idle"
    ELSE IF pc = "rotate.create" THEN "rotate.put"
    ELSE "idle"

\* pathRotateToken: the step that follows each step, any error returning
pathRotateTokenStep(pc, err) ==
    IF err THEN "idle"
    ELSE IF pc = "rotate.create" THEN "rotate.put"
    ELSE IF pc = "rotate.put" THEN "rotate.revoke"
    ELSE "idle"

InitGitlabAdmin ==
    /\ mountInit
    /\ world = [admin |-> [u \in GitlabUsers |-> FALSE], valid |-> {1},
                created |-> 1]

\* pathConfigWrite by the operator, with the token made for the mount by
\* hand, while no rotation runs; getTokenID gives the id of the first
\* active token of that name in the order GitLab lists them
GitlabConfigWrite ==
    /\ \A c \in Calls : calls[c].pc = "idle"
    /\ \E listOk \in BOOLEAN, putOk \in BOOLEAN :
        IF listOk /\ 1 \in world.valid
        THEN \E id \in world.valid :
                /\ storage' = IF putOk
                              THEN accessorPut(storage, configPath,
                                       [GitlabAPIToken |-> 1,
                                        GitlabAPITokenID |-> id],
                                       <<GitlabConfig>>)
                              ELSE storage
                /\ last' = [op |-> "gitlab.config",
                            outcome |-> IF putOk THEN "ok" ELSE "error"]
        ELSE /\ storage' = storage
             /\ last' = [op |-> "gitlab.config", outcome |-> "error"]
    /\ UNCHANGED <<now, calls, nonces, leases, issued, world>>

\* pathRotateToken, lines 154-161: the config is read; a config that is
\* not there is a nil pointer whose field is read
RotateStart(c) ==
    /\ mayStart(c)
    /\ LET cfg == gitlabAdminConfig(storage)
       IN  IF cfg = <<>>
           THEN /\ calls' = calls
                /\ last' = [op |-> "gitlab.rotate", outcome |-> "panic"]
           ELSE /\ calls' = [calls EXCEPT ![c] =
                        [idle EXCEPT !.op = "gitlab.rotate",
                                     !.pc = "rotate.create",
                                     !.config = cfg]]
                /\ last' = noLast
    /\ UNCHANGED <<storage, now, nonces, leases, issued, world>>

\* lines 163-170
RotateCreate(c) ==
    /\ calls[c].pc = "rotate.create"
    /\ \E ok \in BOOLEAN :
        /\ ok => world.created < MaxTokens
        /\ LET r == createToken(world, calls[c].config[1].GitlabAPIToken, ok)
               pc == pathRotateTokenStep("rotate.create", r.err)
           IN  /\ world' = r.w
               /\ calls' = [calls EXCEPT ![c] =
                    IF pc = "idle" THEN idle
                    ELSE [@ EXCEPT !.pc = pc, !.local = <<r.tokenID>>]]
               /\ last' = [op |-> "gitlab.rotate",
                           outcome |-> IF r.err THEN "error" ELSE ""]
    /\ UNCHANGED <<storage, now, nonces, leases, issued>>

\* lines 172-174
RotatePut(c) ==
    /\ calls[c].pc = "rotate.put"
    /\ \E ok \in BOOLEAN :
        LET pc == pathRotateTokenStep("rotate.put", ~ok)
        IN  /\ storage' = IF ok
                          THEN accessorPut(storage, configPath,
                                   [GitlabAPIToken |-> calls[c].local[1],
                                    GitlabAPITokenID |-> calls[c].local[1]],
                                   <<GitlabConfig>>)
                          ELSE storage
            /\ calls' = [calls EXCEPT ![c] =
                    IF pc = "idle" THEN idle ELSE [@ EXCEPT !.pc = pc]]
            /\ last' = [op |-> "gitlab.rotate",
                        outcome |-> IF ok THEN "" ELSE "error"]
    /\ UNCHANGED <<now, nonces, leases, issued, world>>

\* lines 176-180: the old token id is revoked through the client of the
\* old token
RotateRevoke(c) ==
    /\ calls[c].pc = "rotate.revoke"
    /\ \E ok \in BOOLEAN :
        LET r == revokeToken(world, calls[c].config[1].GitlabAPIToken,
                             calls[c].config[1].GitlabAPITokenID, ok)
        IN  /\ world' = r.w
            /\ calls' = [calls EXCEPT ![c] = idle]
            /\ last' = [op |-> "gitlab.rotate",
                        outcome |-> IF r.err THEN "error" ELSE "ok",
                        revoked |-> IF r.err THEN 0
                                    ELSE calls[c].config[1].GitlabAPITokenID]
    /\ UNCHANGED <<storage, now, nonces, leases, issued>>

\* pathIssueReadUpdate for an existing role and an email given: the user is
\* looked up and made admin, and the response carries a gitlab_admin secret
AdminIssue ==
    /\ BagCardinality(leases) < MaxAdminLeases
    /\ \E u \in GitlabUsers, userOk \in BOOLEAN, modifyOk \in BOOLEAN :
        LET cfg == gitlabAdminConfig(storage)
        IN  IF cfg = <<>> \/ ~userOk \/ cfg[1].GitlabAPIToken \notin world.valid
            THEN /\ last' = [op |-> "gitlab.issue", outcome |-> "error"]
                 /\ UNCHANGED <<leases, world>>
            ELSE LET r == modifyUser(world, cfg[1].GitlabAPIToken, u, TRUE,
                                     modifyOk)
                 IN  /\ world' = r.w
                     /\ leases' = IF r.err THEN leases
                                  ELSE leases (+) SetToBag({[user_id |-> u]})
                     /\ last' = [op |-> "gitlab.issue",
                                 outcome |-> IF r.err THEN "error" ELSE "ok"]
    /\ UNCHANGED <<storage, now, calls, nonces, issued>>

\* the host ends a lease: secretGitlabTokenRevoke; a lease whose revocation
\* failed stays with the host
AdminRevoke ==
    /\ \E l \in BagToSet(leases), ok \in BOOLEAN :
        LET cfg == gitlabAdminConfig(storage)
            r == modifyUser(world, cfg[1].GitlabAPIToken, l.user_id, FALSE, ok)
        IN  /\ world' = r.w
            /\ leases' = IF r.err THEN leases
                         ELSE leases (-) SetToBag({l})
            /\ last' = [op |-> "gitlab.revoke", user_id |-> l.user_id,
                        outcome |-> IF r.err THEN "error" ELSE "ok"]
    /\ UNCHANGED <<storage, now, calls, nonces, issued>>

NextGitlabAdmin ==
    \/ GitlabConfigWrite
    \/ \E c \in Calls : RotateStart(c)
    \/ \E c \in Calls : RotateCreate(c)
    \/ \E c \in Calls : RotatePut(c)
    \/ \E c \in Calls : RotateRevoke(c)
    \/ AdminIssue
    \/ AdminRevoke

GitlabAdminSpec == InitGitlabAdmin /\ [][NextGitlabAdmin]_vars

\* C23: a user who holds a gitlab_admin lease that has not ended is GitLab
\* admin; with two leases of one user, the end of one leaves the flag set.
C23_AdminWhileLeased ==
    \A l \in BagToSet(leases) : world.admin[l.user_id]

\* C24: rotate-token revokes the old token only after the config with the
\* new token is written, and not at all when creating the token or writing
\* the config failed; the token stored in the config is never a revoked one.
storedTokenActive ==
    LET cfg == gitlabAdminConfig(storage)
    IN  cfg # <<>> => cfg[1].GitlabAPIToken \in world.valid

revokeAfterPut ==
    \A t \in world.valid \ world'.valid :
        /\ gitlabAdminConfig(storage)[1].GitlabAPIToken # t
        /\ \E c \in Calls : /\ calls[c].pc = "rotate.revoke"
                            /\ calls[c].config[1].GitlabAPITokenID = t
                            /\ calls'[c].pc = "idle"

C24_RotateOrder == []storedTokenActive /\ [][revokeAfterPut]_vars

\* a rotation has revoked the old token and the config holds the new one
C24_Witness ==
    /\ last.op = "gitlab.rotate"
    /\ last.outcome = "ok"
    /\ last.revoked \notin world.valid
    /\ gitlabAdminConfig(storage)[1].GitlabAPIToken \in world.valid
    /\ gitlabAdminConfig(storage)[1].GitlabAPIToken # 1

(***************************************************************************)
(* The nexus backend: the config and rotate-root.  world is Nexus: the     *)
(* password of its admin user (the one user with role nx-admin; user dev   *)
(* has a password of its own and no such role) and how many passwords      *)
(* rotate-root has generated.  The config is in storage under "config".    *)
(***************************************************************************)
MaxGenerated == 2

NexusURL == "https://nexus"

DefaultNexusURL == "https://127.0.0.1"

DefaultUsername == "admin"

GeneratedPasswords == <<"gen1", "gen2", "gen3", "gen4">>

nexusConfig(st) == IF configPath \in DOMAIN st THEN <<st[configPath]>> ELSE <<>>

\* the basic-auth check of Nexus on a request that reaches it
nexusAuth(w, url, username, password, reachable) ==
    /\ reachable
    /\ url = NexusURL
    /\ \/ username = "admin" /\ password = w.password
       \/ username = "dev" /\ password = "devpw"

\* nexusClient.validate: "" for nil
validate(w, url, username, password, reachable) ==
    IF ~nexusAuth(w, url, username, password, reachable)
    THEN "unexpected result code"
    ELSE IF username # "admin" THEN "missing role Nexus user"
    ELSE ""

\* nexusClient.changePassword of the user of the client: Nexus after the
\* call, and whether the call returned an error
changePassword(w, url, username, oldPassword, password, reachable) ==
    IF nexusAuth(w, url, username, oldPassword, reachable) /\ username = "admin"
    THEN [err |-> FALSE, w |-> [w EXCEPT !.password = password]]
    ELSE [err |-> TRUE, w |-> w]

\* nexus.go pathConfigCreateUpdate: the storage after the call and its error
\* ("" for a nil response and a nil error); d.Get gives the default of the
\* schema for a field that is not in the request
nexusConfigCreateUpdate(st, w, d, putOk, reachable) ==
    LET url == IF GetOk(d, "nexus_url") THEN Val(d, "nexus_url")
               ELSE DefaultNexusURL
        username == IF GetOk(d, "username") THEN Val(d, "username")
                    ELSE DefaultUsername
        password == IF GetOk(d, "password") THEN Val(d, "password") ELSE ""
        config == [NexusURL |-> url, Username |-> username,
                   Password |-> password]
        v == validate(w, url, username, password, reachable)
    IN  IF url = "" THEN [st |-> st, err |-> "field 'nexus_url' is mandatory"]
        ELSE IF username = ""
        THEN [st |-> st, err |-> "field 'username' is mandatory"]
        ELSE IF password = ""
        THEN [st |-> st, err |-> "field 'password' is mandatory"]
        ELSE IF ~putOk
        THEN [st |-> st, err |-> "failed to write configuration to storage"]
        ELSE [st |-> StoragePut(st, configPath, config), err |-> v]

\* pathRotateRoot: storage and Nexus after the call, and its outcome; a
\* config that is not stored is a nil pointer whose field is read
pathRotateRoot(st, w, changeOk, putOk) ==
    LET cfg == nexusConfig(st)
        password == GeneratedPasswords[w.generated + 1]
        w1 == [w EXCEPT !.generated = @ + 1]
    IN  IF cfg = <<>> THEN [st |-> st, w |-> w1, outcome |-> "panic"]
        ELSE LET r == changePassword(w1, cfg[1].NexusURL, cfg[1].Username,
                                     cfg[1].Password, password, changeOk)
             IN  IF r.err
                 THEN [st |-> st, w |-> r.w,
                       outcome |-> "failed to change password"]
                 ELSE IF ~putOk
                 THEN [st |-> st, w |-> r.w,
                       outcome |-> "failed to write configuration to storage"]
                 ELSE [st |-> StoragePut(st, configPath,
                                 [cfg[1] EXCEPT !.Password = password]),
                       w |-> r.w, outcome |-> ""]

NexusConfigData ==
    {[nexus_url |-> u, username |-> n, password |-> p] :
        u \in {<<>>, <<"">>, <<NexusURL>>},
        n \in {<<>>, <<"">>, <<"dev">>},
        p \in {<<>>, <<"pw0">>, <<"devpw">>, <<"gen1">>}}

InitNexus ==
    /\ mountInit
    /\ world = [password |-> "pw0", generated |-> 0]

NexusConfigWrite ==
    /\ \E d \in NexusConfigData, putOk \in BOOLEAN, reachable \in BOOLEAN :
        LET r == nexusConfigCreateUpdate(storage, world, d, putOk, reachable)
        IN  /\ storage' = r.st
            /\ last' = [op |-> "nexus.config", err |-> r.err]
    /\ UNCHANGED <<now, calls, nonces, leases, issued, world>>

NexusRotateRoot ==
    /\ world.generated < MaxGenerated
    /\ \E changeOk \in BOOLEAN, putOk \in BOOLEAN :
        LET r == pathRotateRoot(storage, world, changeOk, putOk)
        IN  /\ storage' = r.st
            /\ world' = r.w
            /\ last' = [op |-> "nexus.rotate", outcome |-> r.outcome]
    /\ UNCHANGED <<now, calls, nonces, leases, issued>>

NextNexus ==
    \/ NexusConfigWrite
    \/ NexusRotateRoot

NexusSpec == InitNexus /\ [][NextNexus]_vars

\* C25: a Nexus config write that ends in an error leaves the stored config
\* as it was; only a config whose validation succeeded is stored.
C25_FailedWriteKeepsConfig ==
    [][(last'.op = "nexus.config" /\ last'.err # "")
          => storage' = storage]_vars

\* C29: after a rotate-root call, whatever its outcome, the password stored
\* in the config is the password valid in Nexus (for a call made when the
\* stored password was the valid one).
storedPasswordValid ==
    /\ nexusConfig(storage) # <<>>
    /\ nexusConfig(storage)[1].Username = "admin"
    /\ nexusConfig(storage)[1].Password = world.password

C29_RotateKeepsPasswordValid ==
    [][(storedPasswordValid /\ last'.op = "nexus.rotate")
          => storedPasswordValid']_vars

(***************************************************************************)
(* The pagerduty-secrets backend: verifyBoundOfficeHours.  world is the    *)
(* wall clock in Europe/Amsterdam at the moment of the call.               *)
(***************************************************************************)
Weekdays ==
    {"Sunday", "Monday", "Tuesday", "Wednesday", "Thursday", "Friday",
     "Saturday"}

HoursOfDay == 0..23

MinutesOfHour == {0, 59}

errNotOfficeHours == "not within office hours Mon-Fri 09:00-18 Europe/Amsterdam"

\* "" for nil; locOk is whether time.LoadLocation finds the zone
verifyBoundOfficeHours(verify, locOk, clock) ==
    IF ~verify THEN ""
    ELSE IF ~locOk THEN "failed to read location"
    ELSE IF \/ clock.weekday = "Saturday"
            \/ clock.weekday = "Sunday"
            \/ clock.hour < 8
            \/ clock.hour > 17
    THEN errNotOfficeHours
    ELSE ""

InitOfficeHours ==
    /\ mountInit
    /\ world \in [weekday : Weekdays, hour : HoursOfDay,
                  minute : MinutesOfHour]

VerifyOfficeHours ==
    /\ \E verify \in BOOLEAN, locOk \in BOOLEAN :
        last' = [op |-> "officehours", verify |-> verify, locOk |-> locOk,
                 err |-> verifyBoundOfficeHours(verify, locOk, world)]
    /\ UNCHANGED <<storage, now, calls, nonces, leases, issued, world>>

NextOfficeHours == VerifyOfficeHours

OfficeHoursSpec == InitOfficeHours /\ [][NextOfficeHours]_vars

\* C27: with bound_office_hours set, the times accepted are exactly those
\* of Monday to Friday from 09:00 to 18:00 Europe/Amsterdam, every other
\* time getting the not-within-office-hours error; with it unset every
\* time is accepted.  (18:00 sharp may go either way.)
C27_OfficeHoursExact ==
    LET weekday == world.weekday \notin {"Saturday", "Sunday"}
        within == weekday /\ world.hour >= 9 /\ world.hour < 18
        closing == weekday /\ world.hour = 18 /\ world.minute = 0
    IN  /\ (last.op = "officehours" /\ ~last.verify) => last.err = ""
        /\ (last.op = "officehours" /\ last.verify /\ last.locOk) =>
              /\ within => last.err = ""
              /\ ~(within \/ closing) => last.err = errNotOfficeHours

(***************************************************************************)
(* The pagerduty-secrets backend: issue.  world is PagerDuty and the       *)
(* clock: for each schedule the emails of the users on call now, as        *)
(* PagerDuty spells them, and the Amsterdam wall clock.                    *)
(***************************************************************************)
PdSchedules == {"s1", "s2"}

\* strings.TrimSpace on a string of characters
RECURSIVE TrimSpace(_)
TrimSpace(s) ==
    IF s = <<>> THEN s
    ELSE IF Head(s) = " " THEN TrimSpace(Tail(s))
    ELSE IF s[Len(s)] = " " THEN TrimSpace(SubSeq(s, 1, Len(s) - 1))
    ELSE s

\* strutil.RemoveDuplicates(items, true): trimmed, lower-cased, the empty
\* ones dropped; as a set, the order being of no use to StrListContains
RemoveDuplicates(items) ==
    {ToLower(TrimSpace(items[i])) : i \in DOMAIN items} \ {<<>>}

\* a mutant of verifyBoundPagerdutySchedules: the first schedule with
\* anybody on call is taken
verifyBoundPagerdutySchedulesAnyone(w, issuerEmail, schedules, pdFail) ==
    LET RECURSIVE loop(_)
        loop(i) ==
            IF i > Len(schedules) THEN [schedule |-> "", err |-> FALSE]
            ELSE IF schedules[i] = pdFail \/ schedules[i] \notin PdSchedules
            THEN [schedule |-> "", err |-> TRUE]
            ELSE IF RemoveDuplicates(w.onCall[schedules[i]]) # {}
            THEN [schedule |-> schedules[i], err |-> FALSE]
            ELSE loop(i + 1)
    IN  loop(1)

\* verifyBoundPagerdutySchedules: the schedules in the order of the role;
\* pdFail is the schedule whose lookup PagerDuty fails, "" for none
verifyBoundPagerdutySchedules(w, issuerEmail, schedules, pdFail) ==
    LET RECURSIVE loop(_)
        loop(i) ==
            IF i > Len(schedules) THEN [schedule |-> "", err |-> FALSE]
            ELSE IF schedules[i] = pdFail \/ schedules[i] \notin PdSchedules
            THEN [schedule |-> "", err |-> TRUE]
            ELSE IF ToLower(issuerEmail)
                        \in RemoveDuplicates(w.onCall[schedules[i]])
            THEN [schedule |-> schedules[i], err |-> FALSE]
            ELSE loop(i + 1)
    IN  loop(1)

\* pathIssueCreateUpdate of pagerduty-secrets: the outcome, and whether the
\* Vault client token and the downstream secret were made for the caller.
\* A config that is not stored is a nil pointer whose field is read.
pagerdutyIssue(w, role, cfgFound, reason, identity, in) ==
    LET none(o) == [outcome |-> o, token |-> FALSE, secret |-> FALSE]
        v == verifyBoundPagerdutySchedules(w, identity[1],
                 role[1].BoundPagerdutySchedules, in.pdFail)
    IN  IF role = <<>> THEN none("error")
        ELSE IF reason = "" THEN none("error")
        ELSE IF ~cfgFound THEN none("panic")
        ELSE IF identity = <<>> THEN none("error")
        ELSE IF verifyBoundOfficeHours(role[1].BoundOfficeHours,
                    in.failAt # "location", w)
                    # ""
        THEN none("error")
        ELSE IF v.err \/ v.schedule = "" THEN none("error")
        ELSE IF in.failAt = "client" THEN none("error")
        ELSE IF in.failAt = "token" THEN none("error")
        ELSE IF in.failAt = "secret"
        THEN [outcome |-> "error", token |-> TRUE, secret |-> FALSE]
        ELSE IF sendSlackNotifications(role[1].NotifySlackChannels,
                    [i \in DOMAIN role[1].NotifySlackChannels |->
                        in.failAt # "slack"])
                    # <<>>
        THEN [outcome |-> "error", token |-> TRUE, secret |-> TRUE]
        ELSE [outcome |-> "secret", token |-> TRUE, secret |-> TRUE]

PdEmails ==
    {<<"B", "o">>, <<"b", "o", " ">>, <<"c", "a">>}

PdIdentities ==
    {<<>>, <<<<"b", "o">>>>, <<<<"B", "O">>>>, <<<<"d", "a">>>>}

PdRoles ==
    {<<>>} \cup
    {<<[BoundPagerdutySchedules |-> ss, BoundOfficeHours |-> oh,
        NotifySlackChannels |-> <<"#ops">>]>> :
        ss \in {<<>>, <<"s1">>, <<"s2", "s1">>}, oh \in BOOLEAN}

\* what the systems around the call do: the schedule whose lookup
\* PagerDuty fails, and the one step of the rest that fails ("" for none)
PdInputs ==
    [pdFail : {"", "s2"},
     failAt : {"", "location", "client", "token", "secret", "slack"}]

InitPagerduty ==
    /\ mountInit
    /\ world = [onCall |-> [s \in PdSchedules |-> <<>>],
                weekday |-> "Monday", hour |-> 10, minute |-> 0]

\* the shift of a schedule changes hands
PdShift ==
    /\ \E s \in PdSchedules, es \in {<<>>} \cup {<<e>> : e \in PdEmails} :
        world' = [world EXCEPT !.onCall[s] = es]
    /\ last' = noLast
    /\ UNCHANGED <<storage, now, calls, nonces, leases, issued>>

\* the week goes on to Sunday, and on to Monday
PdDay ==
    /\ world' = [world EXCEPT
                    !.weekday = IF @ = "Monday" THEN "Sunday" ELSE "Monday"]
    /\ last' = noLast
    /\ UNCHANGED <<storage, now, calls, nonces, leases, issued>>

PdIssue ==
    /\ \E role \in PdRoles, cfgFound \in BOOLEAN,
          reason \in {"", "incident"}, identity \in PdIdentities,
          in \in PdInputs :
        LET r == pagerdutyIssue(world, role, cfgFound, reason, identity, in)
        IN  last' = [op |-> "pd.issue", outcome |-> r.outcome,
                     token |-> r.token, secret |-> r.secret,
                     reason |-> reason, identity |-> identity,
                     schedules |-> IF role = <<>> THEN <<>>
                                   ELSE role[1].BoundPagerdutySchedules]
    /\ UNCHANGED <<storage, now, calls, nonces, leases, issued, world>>

NextPagerduty ==
    \/ PdShift
    \/ PdDay
    \/ PdIssue

PagerdutySpec == InitPagerduty /\ [][NextPagerduty]_vars

\* the identity is, case aside, the email of a user on call now on one of
\* the schedules
scheduledNow(identity, schedules) ==
    /\ identity # <<>>
    /\ \E i \in DOMAIN schedules :
        /\ schedules[i] \in PdSchedules
        /\ \E j \in DOMAIN world.onCall[schedules[i]] :
              equalUpToCase(<<TrimSpace(world.onCall[schedules[i]][j])>>,
                            identity)

SollIstNames == << <<"r", "1">>, <<"r", "2">> >>

SollIstFilters == {"", "dev"}

SollIstRoleData ==
    {[noData(RoleFields) EXCEPT
         !["secret_path"] = <<"aws/creds/admin">>,
         !["bound_requester_roles"] = <<rs>>] :
        rs \in {<<"dev">>, <<"sre">>}}

\* the entry of one role in the response of pathSollIstRead
sollIstEntry(rname, role) ==
    [name |-> rname,
     secret_path |-> role.SecretPath,
     secret_path_method |-> role.SecretPathMethod,
     secret_data |-> role.SecretData,
     secret_type |-> role.SecretType,
     secret_required_fields |-> role.SecretRequiredFields,
     secret_ttl |-> role.SecretTTL \div Second,
     secret_max_ttl |-> role.SecretMaxTTL \div Second,
     exclusive_lease |-> role.ExclusiveLease,
     bound_requester_ids |-> role.BoundRequesterIDs,
     bound_requester_roles |-> role.BoundRequesterRoles,
     bound_approver_ids |-> role.BoundApproverIDs,
     bound_approver_roles |-> role.BoundApproverRoles,
     min_approvers |-> role.MinApprovers]

\* one round of the loop of pathSollIstRead, lines 36-70: "panic" when
\* b.role gave nil, whose fields are read in either branch
sollIstRound(st, rname, filter, data) ==
    LET found == backendRole(st, rname)
    IN  IF found = <<>> THEN [outcome |-> "panic", data |-> data]
        ELSE LET role == found[1]
                 include == filter = ""
                            \/ StrListContains(role.BoundRequesterRoles, filter)
             IN  [outcome |-> "",
                  data |-> IF include
                           THEN data \cup {sollIstEntry(rname, role)}
                           ELSE data]

\* a role write or delete was served while a read is under way
disturbed ==
    [c \in Calls |-> IF calls[c].pc = "idle" THEN calls[c]
                     ELSE [calls[c] EXCEPT !.again = TRUE]]

\* pathRoleCreateUpdate for one of the roles
SollIstRoleWrite ==
    /\ \E i \in DOMAIN SollIstNames, d \in SollIstRoleData :
        LET name == SollIstNames[i]
            r == roleCreateUpdate(backendRole(storage, name), d,
                     IF pathRoleExistenceCheck(storage, name)
                     THEN "update" ELSE "create")
        IN  /\ r.err = ""
            /\ storage' = accessorPut(storage, rolePath, roleToJSON(r.role),
                                      <<name>>)
    /\ calls' = disturbed
    /\ last' = [noLast EXCEPT !.op = "role", !.outcome = "ok"]
    /\ UNCHANGED <<now, nonces, leases, issued, world>>

\* pathRoleDelete for one of the roles
SollIstRoleDelete ==
    /\ \E i \in DOMAIN SollIstNames :
        storage' = roleDelete(storage, SollIstNames[i])
    /\ calls' = disturbed
    /\ last' = [noLast EXCEPT !.op = "role.delete", !.outcome = "ok"]
    /\ UNCHANGED <<now, nonces, leases, issued, world>>

\* pathSollIstRead, line 29: the listing
SollIstList ==
    /\ calls["c1"].pc = "idle"
    /\ \E filter \in SollIstFilters :
        calls' = [calls EXCEPT !["c1"] =
            [idle EXCEPT !.op = "sollist", !.pc = "sollist.read",
                !.local = <<[roles |-> SelectSeq(SollIstNames,
                                 LAMBDA n : n \in pathRoleList(storage)),
                             filter |-> filter, data |-> {}]>>]]
    /\ last' = noLast
    /\ UNCHANGED <<storage, now, nonces, leases, issued, world>>

\* lines 35-71: the next role of the listing is read
SollIstRound ==
    /\ calls["c1"].pc = "sollist.read"
    /\ calls["c1"].local[1].roles # <<>>
    /\ LET l == calls["c1"].local[1]
           r == sollIstRound(storage, Head(l.roles), l.filter, l.data)
       IN  IF r.outcome = "panic"
           THEN /\ calls' = [calls EXCEPT !["c1"] = idle]
                /\ last' = [op |-> "sollist", outcome |-> "panic",
                            filter |-> l.filter, data |-> {},
                            again |-> calls["c1"].again]
           ELSE /\ calls' = [calls EXCEPT !["c1"].local =
                        <<[l EXCEPT !.roles = Tail(@), !.data = r.data]>>]
                /\ last' = noLast
    /\ UNCHANGED <<storage, now, nonces, leases, issued, world>>

\* line 73: the response
SollIstReturn ==
    /\ calls["c1"].pc = "sollist.read"
    /\ calls["c1"].local[1].roles = <<>>
    /\ calls' = [calls EXCEPT !["c1"] = idle]
    /\ last' = [op |-> "sollist", outcome |-> "ok",
                filter |-> calls["c1"].local[1].filter,
                data |-> calls["c1"].local[1].data,
                again |-> calls["c1"].again]
    /\ UNCHANGED <<storage, now, nonces, leases, issued, world>>

NextSollIst ==
    \/ SollIstRoleWrite
    \/ SollIstRoleDelete
    \/ SollIstList
    \/ SollIstRound
    \/ SollIstReturn

SollIstSpec == Init /\ [][NextSollIst]_vars

\* C28: a soll-ist read ends with a response or an error, never with a
\* crash, whatever role writes and deletes are served between its steps,
\* and the response of a read that nothing was served between holds the
\* data of exactly the stored roles whose bound_requester_roles hold the
\* filter (of all the roles when the filter is empty).
C28_SollIstNeverCrashes ==
    last.op = "sollist" =>
        /\ last.outcome # "panic"
        /\ ~last.again =>
              last.data =
                {sollIstEntry(n, backendRole(storage, n)[1]) :
                    n \in {m \in Range(SollIstNames) :
                        /\ backendRole(storage, m) # <<>>
                        /\ \/ last.filter = ""
                           \/ last.filter \in Range(
                                backendRole(storage, m)[1].BoundRequesterRoles)}}

\* the field of a role that the request field k writes
roleField(role, k) ==
    CASE k = "secret_path" -> role.SecretPath
      [] k = "secret_path_method" -> role.SecretPathMethod
      [] k = "secret_data" -> role.SecretData
      [] k = "secret_type" -> role.SecretType
      [] k = "secret_environment" -> role.SecretEnvironment
      [] k = "secret_aws_state_role" -> role.SecretAWSStateRole
      [] k = "secret_required_fields" -> role.SecretRequiredFields
      [] k = "secret_ttl" -> role.SecretTTL
      [] k = "secret_max_ttl" -> role.SecretMaxTTL
      [] k = "exclusive_lease" -> role.ExclusiveLease
      [] k = "min_approvers" -> role.MinApprovers
      [] k = "bound_requester_ids" -> role.BoundRequesterIDs
      [] k = "bound_requester_roles" -> role.BoundRequesterRoles
      [] k = "bound_approver_ids" -> role.BoundApproverIDs
      [] k = "bound_approver_roles" -> role.BoundApproverRoles
      [] k = "notify_slack_channels" -> role.NotifySlackChannels

\* C30: an accepted update of a stored role changes only the fields the
\* request holds; every field the request omits keeps its stored value.
C30_UpdateKeepsOmitted ==
    [][(/\ calls["c1"].pc = "role.write"
        /\ last'.op = "role.write"
        /\ last'.operation = "update"
        /\ last'.err = "")
          => \A k \in RoleFields :
                calls["c1"].local[1][k] = <<>> =>
                    roleField(backendRole(storage', calls["c1"].name)[1], k)
                      = roleField(backendRole(storage, calls["c1"].name)[1], k)
      ]_vars

====
